---------------------------- MODULE Spec2Model ----------------------------
(***************************************************************************)
(* Model of the personal-finance-analyzer backend (src/backend):           *)
(*   app.py                      upload_and_analyze request handler        *)
(*   services/file_processor.py  FileProcessor                             *)
(*   services/data_parser.py     DataParser (tables extracted from a PDF)  *)
(*   services/pdf_parser.py      PDFParser (records extracted by the LLM)  *)
(*   services/categorizer.py     TransactionCategorizer                    *)
(*   services/analyzer.py        DataAnalyzer                              *)
(*                                                                         *)
(* Conventions.  Text is a TLA+ string, handled character by character     *)
(* with Len, SubSeq and \o.  A Python value that may be text, a number or  *)
(* None is a record [t, s, n] (Str, Num, Null below).  Money is an integer *)
(* number of cents, so round(x, 2) is exact.  A Python call that may raise *)
(* returns a record with a field ok; ok = FALSE is the raised exception.   *)
(***************************************************************************)
EXTENDS Integers, Sequences, FiniteSets, TLC

VARIABLES
    pc,            \* position of the running entry point
    upload,        \* request.files of the HTTP request
    file_path,     \* local file_path of upload_and_analyze ("" = unset)
    disk,          \* paths that exist in the upload folder
    raw_records,   \* records returned by PDFParser.parse_transactions_from_text
    transactions,  \* list returned by the parsing stage
    categorized,   \* list returned by categorize_batch
    analysis,      \* dict returned by analyze_transactions
    response,      \* what the entry point returned
    heap,          \* the dict objects of a library caller, by reference
    given,         \* the caller's list: references to its records
    labelled_once, \* list returned by categorize_batch(given)
    labelled_twice, \* list returned by categorize_batch(labelled_once)
    reanalysis,    \* dict returned by a second analyze_transactions call
    called_at,     \* the days on which the two analyses ran
    llm_output     \* response.content of the LLM call ("" = no call yet)

\* the variables of a direct use of the categorizer and the analyzer
lib_vars == <<heap, given, labelled_once, labelled_twice, reanalysis, called_at>>

vars == <<pc, upload, file_path, disk, raw_records, transactions,
          categorized, analysis, response, heap, given, labelled_once,
          labelled_twice, reanalysis, called_at, llm_output>>

-----------------------------------------------------------------------------
(* Python values *)

Str(s) == [t |-> "str", s |-> s, n |-> 0]
Num(n) == [t |-> "num", s |-> "", n |-> n]
Null == [t |-> "null", s |-> "", n |-> 0]

Ok(v) == [ok |-> TRUE, v |-> v]
Raise == [ok |-> FALSE, v |-> 0]

-----------------------------------------------------------------------------
(* Text primitives *)

CharAt(s, i) == SubSeq(s, i, i)

Rest(s) == SubSeq(s, 2, Len(s))

\* pattern in text / re.search(pattern, text) for a literal pattern
IsSubstr(p, s) ==
    \E i \in 0..(Len(s) - Len(p)) : SubSeq(s, i + 1, i + Len(p)) = p

\* the characters str.strip() removes, as far as the pools hold them
Whitespace == {" ", "\n"}

RECURSIVE LStrip(_)
LStrip(s) ==
    IF s # "" /\ CharAt(s, 1) \in Whitespace THEN LStrip(Rest(s)) ELSE s

RECURSIVE RStrip(_)
RStrip(s) ==
    IF s # "" /\ CharAt(s, Len(s)) \in Whitespace
    THEN RStrip(SubSeq(s, 1, Len(s) - 1))
    ELSE s

\* str.strip()
Strip(s) == RStrip(LStrip(s))

UpperToLower ==
    ("A" :> "a") @@ ("B" :> "b") @@ ("C" :> "c") @@ ("D" :> "d") @@
    ("E" :> "e") @@ ("F" :> "f") @@ ("G" :> "g") @@ ("H" :> "h") @@
    ("I" :> "i") @@ ("J" :> "j") @@ ("K" :> "k") @@ ("L" :> "l") @@
    ("M" :> "m") @@ ("N" :> "n") @@ ("O" :> "o") @@ ("P" :> "p") @@
    ("Q" :> "q") @@ ("R" :> "r") @@ ("S" :> "s") @@ ("T" :> "t") @@
    ("U" :> "u") @@ ("V" :> "v") @@ ("W" :> "w") @@ ("X" :> "x") @@
    ("Y" :> "y") @@ ("Z" :> "z")

LowerChar(c) == IF c \in DOMAIN UpperToLower THEN UpperToLower[c] ELSE c

\* str.lower()
RECURSIVE Lower(_)
Lower(s) == IF s = "" THEN "" ELSE LowerChar(CharAt(s, 1)) \o Lower(Rest(s))

\* str.replace(c, '') for a one-character c
RECURSIVE RemoveChar(_, _)
RemoveChar(s, c) ==
    IF s = "" THEN ""
    ELSE (IF CharAt(s, 1) = c THEN "" ELSE CharAt(s, 1)) \o RemoveChar(Rest(s), c)

\* str.split(c) for a one-character c
RECURSIVE SplitFrom(_, _, _)
SplitFrom(s, c, cur) ==
    IF s = "" THEN <<cur>>
    ELSE IF CharAt(s, 1) = c THEN <<cur>> \o SplitFrom(Rest(s), c, "")
    ELSE SplitFrom(Rest(s), c, cur \o CharAt(s, 1))

Split(s, c) == SplitFrom(s, c, "")

DigitValue ==
    ("0" :> 0) @@ ("1" :> 1) @@ ("2" :> 2) @@ ("3" :> 3) @@ ("4" :> 4) @@
    ("5" :> 5) @@ ("6" :> 6) @@ ("7" :> 7) @@ ("8" :> 8) @@ ("9" :> 9)

IsDigits(s) == s # "" /\ \A i \in 1..Len(s) : CharAt(s, i) \in DOMAIN DigitValue

RECURSIVE DigitsValue(_, _)
DigitsValue(s, acc) ==
    IF s = "" THEN acc ELSE DigitsValue(Rest(s), 10 * acc + DigitValue[CharAt(s, 1)])

\* int to decimal text, zero-padded to width w
DigitText == <<"0", "1", "2", "3", "4", "5", "6", "7", "8", "9">>

RECURSIVE Pad(_, _)
Pad(n, w) == IF w = 0 THEN "" ELSE Pad(n \div 10, w - 1) \o DigitText[(n % 10) + 1]


-----------------------------------------------------------------------------
(* Numbers and dates *)

\* float(text), in cents.  Modelled for plain decimal literals with at most two
\* fractional digits: optional sign, digits, optional point.  Every other text
\* is a ValueError (the input pools below hold no exponent, inf, nan or
\* underscore literals, which float() would also accept).
DecimalCents(ip, fp) ==
    IF /\ ip = "" \/ IsDigits(ip)
       /\ fp = "" \/ IsDigits(fp)
       /\ ip # "" \/ fp # ""
       /\ Len(fp) <= 2
    THEN Ok(100 * (IF ip = "" THEN 0 ELSE DigitsValue(ip, 0))
            + (IF fp = "" THEN 0
               ELSE IF Len(fp) = 1 THEN 10 * DigitsValue(fp, 0)
               ELSE DigitsValue(fp, 0)))
    ELSE Raise

UnsignedCents(parts) ==
    IF Len(parts) = 1 THEN DecimalCents(parts[1], "")
    ELSE IF Len(parts) = 2 THEN DecimalCents(parts[1], parts[2])
    ELSE Raise

Negated(r) == IF r.ok THEN Ok(0 - r.v) ELSE Raise

SignedCents(s) ==
    IF s # "" /\ CharAt(s, 1) = "-" THEN Negated(UnsignedCents(Split(Rest(s), ".")))
    ELSE IF s # "" /\ CharAt(s, 1) = "+" THEN UnsignedCents(Split(Rest(s), "."))
    ELSE UnsignedCents(Split(s, "."))

ParseFloat(text) == SignedCents(Strip(text))

Abs(n) == IF n < 0 THEN 0 - n ELSE n

IsLeap(y) == (y % 4 = 0 /\ y % 100 # 0) \/ y % 400 = 0

DaysInMonth(y, m) ==
    IF m = 2 THEN (IF IsLeap(y) THEN 29 ELSE 28)
    ELSE IF m \in {4, 6, 9, 11} THEN 30 ELSE 31

\* datetime(year, month, day), ValueError when out of range
ValidDate(y, m, d) ==
    IF y >= 1 /\ m \in 1..12 /\ d >= 1 /\ d <= DaysInMonth(y, m)
    THEN Ok([year |-> y, month |-> m, day |-> d])
    ELSE Raise

\* the date from the texts strptime matched for %Y, %m, %d
MkDate(ys, ms, ds) ==
    IF /\ IsDigits(ys) /\ Len(ys) = 4
       /\ IsDigits(ms) /\ Len(ms) <= 2
       /\ IsDigits(ds) /\ Len(ds) <= 2
    THEN ValidDate(DigitsValue(ys, 0), DigitsValue(ms, 0), DigitsValue(ds, 0))
    ELSE Raise

MonthAbbr == <<"jan", "feb", "mar", "apr", "may", "jun",
               "jul", "aug", "sep", "oct", "nov", "dec">>

MonthFull == <<"january", "february", "march", "april", "may", "june", "july",
               "august", "september", "october", "november", "december">>

MonthIndexText(names, lowered) ==
    IF \E i \in 1..12 : names[i] = lowered
    THEN Pad(CHOOSE i \in 1..12 : names[i] = lowered, 2)
    ELSE ""

\* the text of the month number that %b (names = MonthAbbr) or %B (MonthFull)
\* matches, "" when the text is no month name
MonthNumberText(names, text) == MonthIndexText(names, Lower(text))

NonEmpty(part) == part # ""

\* the formats whose fields are numbers around one separator
NumericDate(fmt, p) ==
    IF Len(p) # 3 THEN Raise
    ELSE IF fmt \in {"%Y-%m-%d", "%Y/%m/%d"} THEN MkDate(p[1], p[2], p[3])
    ELSE IF fmt \in {"%m-%d-%Y", "%m/%d/%Y"} THEN MkDate(p[3], p[1], p[2])
    ELSE MkDate(p[3], p[2], p[1])

\* the formats with a month name, whitespace between the fields
NamedDate(fmt, names, p) ==
    IF Len(p) # 3 THEN Raise
    ELSE IF fmt \in {"%d %b %Y", "%d %B %Y"}
    THEN MkDate(p[3], MonthNumberText(names, p[2]), p[1])
    ELSE IF p[2] # "" /\ CharAt(p[2], Len(p[2])) = ","
    THEN MkDate(p[3], MonthNumberText(names, p[1]), SubSeq(p[2], 1, Len(p[2]) - 1))
    ELSE Raise

\* datetime.strptime(text, fmt) for the formats the parsers use
Strptime(text, fmt) ==
    IF fmt \in {"%Y-%m-%d", "%m-%d-%Y", "%d-%m-%Y", "%m/%d/%Y", "%d/%m/%Y", "%Y/%m/%d"}
    THEN NumericDate(fmt, Split(text, CharAt(fmt, 3)))
    ELSE NamedDate(fmt,
                   IF fmt \in {"%d %b %Y", "%b %d, %Y"} THEN MonthAbbr ELSE MonthFull,
                   SelectSeq(Split(text, " "), NonEmpty))

\* datetime.isoformat() of a date parsed without a time of day
IsoFormat(d) ==
    Pad(d.year, 4) \o "-" \o Pad(d.month, 2) \o "-" \o Pad(d.day, 2) \o "T00:00:00"

-----------------------------------------------------------------------------
(* DataParser: tables extracted from the pages of a PDF.                   *)
(* A table is what pdfplumber's extract_tables returns: a sequence of rows, *)
(* each a sequence of cells, a cell being Str(text) or Null; row 1 holds    *)
(* the headers.                                                             *)

\* self.header_patterns, in declaration order
HeaderPatterns == <<
    [field |-> "date", patterns |-> <<"date", "transaction date">>],
    [field |-> "description",
     patterns |-> <<"description", "transaction description", "details",
                    "transaction details">>],
    [field |-> "amount", patterns |-> <<"amount", "transaction amount">>],
    [field |-> "debit", patterns |-> <<"debit", "withdrawal", "withdrawals">>],
    [field |-> "credit",
     patterns |-> <<"credit", "credits", "deposit", "deposits", "credit amount",
                    "income">>],
    [field |-> "balance",
     patterns |-> <<"balance", "current balance", "available balance",
                    "account balance">>] >>

\* str(col).lower().strip() if col else ''
CleanHeader(cell) ==
    IF cell.t = "str" /\ cell.s # "" THEN Strip(Lower(cell.s)) ELSE ""

\* df.columns after the clean-up of _identify_columns
CleanColumns(header) == [i \in 1..Len(header) |-> CleanHeader(header[i])]

\* any(pattern in col for pattern in patterns)
MatchesField(col, patterns) ==
    \E k \in 1..Len(patterns) : IsSubstr(patterns[k], col)

\* the columns, by position, whose name matches one of the field's patterns
MatchingColumns(cols, patterns) ==
    {i \in 1..Len(cols) : MatchesField(cols[i], patterns)}

Min(S) == CHOOSE x \in S : \A y \in S : x <= y

Max(S) == CHOOSE x \in S : \A y \in S : y <= x

\* the patterns declared for a field
FieldPatterns(f) ==
    HeaderPatterns[CHOOSE k \in 1..Len(HeaderPatterns) :
                       HeaderPatterns[k].field = f].patterns

\* the fields that some column matches
MatchedFields(cols) ==
    {HeaderPatterns[k].field :
        k \in {j \in 1..Len(HeaderPatterns) :
                  MatchingColumns(cols, HeaderPatterns[j].patterns) # {}}}

\* the column_mapping built by the loop of _identify_columns: each field that
\* some column matches, mapped to the first such column's name
BuildMapping(cols) ==
    [f \in MatchedFields(cols) |-> cols[Min(MatchingColumns(cols, FieldPatterns(f)))]]

\* the falsy result of _identify_columns
NoMapping == [f \in {} |-> ""]

\* a variant of the check below that accepts a single amount column only
HasAmountSourceAmountOnly(mapping) == "amount" \in DOMAIN mapping

\* has_amount or has_debit_credit
HasAmountSource(mapping) ==
    \/ "amount" \in DOMAIN mapping
    \/ "debit" \in DOMAIN mapping /\ "credit" \in DOMAIN mapping

\* the two checks of _identify_columns on the mapping it built
RequireColumns(mapping) ==
    IF "date" \notin DOMAIN mapping \/ "description" \notin DOMAIN mapping
    THEN NoMapping
    ELSE IF ~HasAmountSource(mapping) THEN NoMapping
    ELSE mapping

\* DataParser._identify_columns(df) for the frame built from a table with at
\* least a header row; df.empty is a frame without rows or without columns
IdentifyColumns(table) ==
    IF Len(table) < 2 \/ Len(table[1]) = 0 THEN NoMapping
    ELSE RequireColumns(BuildMapping(CleanColumns(table[1])))

\* the positions of the columns carrying a name
ColumnsNamed(cols, name) == {i \in 1..Len(cols) : cols[i] = name}

CellAt(row, at) ==
    IF Cardinality(at) = 1 /\ (CHOOSE i \in at : TRUE) <= Len(row)
    THEN Ok(row[CHOOSE i \in at : TRUE])
    ELSE Raise

\* row[name]: the cell under a column name; a name carried by two columns gives
\* a Series, on which the scalar tests of the row parsers raise ValueError
RowCell(cols, row, name) == CellAt(row, ColumnsNamed(cols, name))

\* pd.isna(value) or str(value).strip() == ''
IsBlank(cell) == cell.t = "null" \/ Strip(cell.s) = ""

\* date_formats of _parse_date_flexible, in order
DateFormats == <<"%Y-%m-%d", "%m/%d/%Y", "%d/%m/%Y", "%m-%d-%Y", "%d-%m-%Y",
                 "%Y/%m/%d", "%d %b %Y", "%d %B %Y", "%b %d, %Y", "%B %d, %Y">>

\* a variant of the loop that goes on after a success and keeps the last
\* format that parses the text
LastFormat(text, fits) ==
    IF fits = {} THEN Raise ELSE Strptime(text, DateFormats[Max(fits)])

\* the loop over date_formats: the first format that parses the text
FirstFormat(text, fits) ==
    IF fits = {} THEN Raise ELSE Strptime(text, DateFormats[Min(fits)])

ParseDateText(text) ==
    FirstFormat(text, {k \in 1..Len(DateFormats) : Strptime(text, DateFormats[k]).ok})

\* DataParser._parse_date_flexible
ParseDateFlexible(cell) ==
    IF IsBlank(cell) THEN Raise ELSE ParseDateText(Strip(cell.s))

\* DataParser._parse_description
ParseDescription(cell) ==
    IF cell.t = "null" THEN Raise
    ELSE IF Strip(cell.s) = "" THEN Raise
    ELSE Ok(Strip(cell.s))

\* the chain of str.replace calls and the strip() of the amount parsers; the
\* euro and pound signs it also removes are outside the pools' character set
CleanAmountText(text) == Strip(RemoveChar(RemoveChar(text, "$"), ","))

\* DataParser._parse_amount
ParseAmount(cell) ==
    IF IsBlank(cell) THEN Raise ELSE ParseFloat(CleanAmountText(cell.s))

\* DataParser._parse_amount_optional; ok = FALSE is the returned None
ParseAmountOptional(cell) ==
    IF IsBlank(cell) THEN Raise ELSE ParseFloat(CleanAmountText(cell.s))

\* the dict a parser returns for one transaction
Transaction(date, description, amount, type, original) ==
    [date |-> IsoFormat(date), description |-> Str(description), amount |-> amount,
     type |-> type, category |-> "Uncategorized", original_data |-> original]

\* row.to_dict(): the cells under the cleaned column names
RowDict(cols, row) == [cols |-> cols, cells |-> row]

\* the parsers of _parse_row_with_mapping applied to row[...]
CellDate(cell) == IF cell.ok THEN ParseDateFlexible(cell.v) ELSE Raise

CellDescription(cell) == IF cell.ok THEN ParseDescription(cell.v) ELSE Raise

CellAmount(cell) == IF cell.ok THEN ParseAmount(cell.v) ELSE Raise

\* the single amount column: type from the sign, then amount = abs(amount)
AmountAndType(amount) ==
    IF amount.ok
    THEN Ok([amount |-> Abs(amount.v),
             type |-> IF amount.v > 0 THEN "Credit" ELSE "Debit"])
    ELSE Raise

\* the if/elif/else on debit_amount and credit_amount
DebitOrCredit(debit_amount, credit_amount) ==
    IF debit_amount.ok /\ debit_amount.v # 0
    THEN Ok([amount |-> Abs(debit_amount.v), type |-> "Debit"])
    ELSE IF credit_amount.ok /\ credit_amount.v # 0
    THEN Ok([amount |-> Abs(credit_amount.v), type |-> "Credit"])
    ELSE Raise

\* separate debit/credit columns
SplitAmount(debit_val, credit_val) ==
    IF ~debit_val.ok \/ ~credit_val.ok THEN Raise
    ELSE DebitOrCredit(ParseAmountOptional(debit_val.v),
                       ParseAmountOptional(credit_val.v))

\* a variant that reads the debit and credit columns whenever both are
\* resolved
RowMoneySplitFirst(cols, row, mapping) ==
    IF "debit" \in DOMAIN mapping /\ "credit" \in DOMAIN mapping
    THEN SplitAmount(RowCell(cols, row, mapping["debit"]),
                     RowCell(cols, row, mapping["credit"]))
    ELSE AmountAndType(CellAmount(RowCell(cols, row, mapping["amount"])))

\* "Extract amount and type"
RowMoney(cols, row, mapping) ==
    IF "amount" \in DOMAIN mapping
    THEN AmountAndType(CellAmount(RowCell(cols, row, mapping["amount"])))
    ELSE SplitAmount(RowCell(cols, row, mapping["debit"]),
                     RowCell(cols, row, mapping["credit"]))

\* "Create standardized transaction", unless an earlier statement raised
BuildTransaction(date, description, money, original) ==
    IF ~date.ok \/ ~description.ok \/ ~money.ok THEN Raise
    ELSE Ok(Transaction(date.v, description.v, money.v.amount, money.v.type,
                        original))

\* DataParser._parse_row_with_mapping; ok = FALSE is any exception it raises
ParseRowWithMapping(cols, row, mapping) ==
    BuildTransaction(CellDate(RowCell(cols, row, mapping["date"])),
                     CellDescription(RowCell(cols, row, mapping["description"])),
                     RowMoney(cols, row, mapping),
                     RowDict(cols, row))

\* what a row's outcome appends to the list
Appended(r) == IF r.ok THEN <<r.v>> ELSE <<>>

\* the try/except of the loop of _parse_dataframe: what one row appends
RowRecords(cols, row, mapping) == Appended(ParseRowWithMapping(cols, row, mapping))

RECURSIVE ParseRowsFrom(_, _, _, _)
ParseRowsFrom(cols, rows, mapping, i) ==
    IF i > Len(rows) THEN <<>>
    ELSE RowRecords(cols, rows[i], mapping) \o ParseRowsFrom(cols, rows, mapping, i + 1)

\* a variant of the row loop without the try/except: it stops at the first row
\* that fails
RECURSIVE ParseRowsUntilFailure(_, _, _, _)
ParseRowsUntilFailure(cols, rows, mapping, i) ==
    IF i > Len(rows) \/ RowRecords(cols, rows[i], mapping) = <<>> THEN <<>>
    ELSE RowRecords(cols, rows[i], mapping)
             \o ParseRowsUntilFailure(cols, rows, mapping, i + 1)

ParseDataframeFailFast(table, mapping) ==
    ParseRowsUntilFailure(CleanColumns(table[1]), Tail(table), mapping, 1)

\* DataParser._parse_dataframe(df, column_mapping)
ParseDataframe(table, mapping) ==
    ParseRowsFrom(CleanColumns(table[1]), Tail(table), mapping, 1)

\* "if column_mapping:" and the extend of parse_file
MappedTransactions(table, mapping) ==
    IF DOMAIN mapping # {} THEN ParseDataframe(table, mapping) ELSE <<>>

\* the body of the table loop of parse_file: what one table adds
TableTransactions(table) ==
    IF Len(table) < 2 THEN <<>>
    ELSE MappedTransactions(table, IdentifyColumns(table))

\* all_transactions after the page and table loops of parse_file
RECURSIVE PageTransactions(_, _)
PageTransactions(tables, i) ==
    IF i > Len(tables) THEN <<>>
    ELSE TableTransactions(tables[i]) \o PageTransactions(tables, i + 1)

RECURSIVE DocumentTransactions(_, _)
DocumentTransactions(pages, i) ==
    IF i > Len(pages) THEN <<>>
    ELSE PageTransactions(pages[i], 1) \o DocumentTransactions(pages, i + 1)

-----------------------------------------------------------------------------
(* PDFParser: records extracted by the language model.                     *)
(* A record is [obj, f]: obj says whether the list element is a JSON       *)
(* object, f holds its keys and their values (Str, Num or Null).           *)

\* trans.get(key, default)
Get(trans, key, default) == IF key \in DOMAIN trans.f THEN trans.f[key] ELSE default

\* float(value): a number, a numeric text, or TypeError/ValueError
ToFloat(value) ==
    IF value.t = "num" THEN Ok(value.n)
    ELSE IF value.t = "str" THEN ParseFloat(value.s)
    ELSE Raise

\* the nested try/except around strptime: ISO, then US, then datetime.now()
\* (the clock is read to the day; isoformat() of it is modelled to the day)
FirstParsed(iso, us, now) == IF iso.ok THEN iso.v ELSE IF us.ok THEN us.v ELSE now

ParsePdfDate(value, now) ==
    IF value.t # "str" THEN now
    ELSE FirstParsed(Strptime(value.s, "%Y-%m-%d"), Strptime(value.s, "%m/%d/%Y"), now)

\* a variant that stores a balance of 0 when the value is no number
StandardizedAnyBalance(trans, debit, credit, balance, date) ==
    IF ~debit.ok \/ ~credit.ok THEN Raise
    ELSE IF ~(debit.v > 0) /\ ~(credit.v > 0) THEN Raise
    ELSE Ok([date |-> IsoFormat(date),
             description |-> Get(trans, "description", Str("Unknown")),
             amount |-> IF debit.v > 0 THEN 0 - debit.v ELSE credit.v,
             type |-> IF debit.v > 0 THEN "Debit" ELSE "Credit",
             category |-> "Uncategorized",
             balance |-> IF balance.ok THEN balance.v ELSE 0,
             original_data |-> trans])

\* the if/elif/else on debit and credit and the dict built after it
StandardizedTrans(trans, debit, credit, balance, date) ==
    IF ~debit.ok \/ ~credit.ok THEN Raise
    ELSE IF ~(debit.v > 0) /\ ~(credit.v > 0) THEN Raise
    ELSE IF ~balance.ok THEN Raise
    ELSE Ok([date |-> IsoFormat(date),
             description |-> Get(trans, "description", Str("Unknown")),
             amount |-> IF debit.v > 0 THEN 0 - debit.v ELSE credit.v,
             type |-> IF debit.v > 0 THEN "Debit" ELSE "Credit",
             category |-> "Uncategorized", balance |-> balance.v,
             original_data |-> trans])

\* the body of the loop of convert_to_standard_format for one record;
\* ok = FALSE is the continue of a skipped record
StandardizeRecord(trans, now) ==
    IF ~trans.obj THEN Raise
    ELSE StandardizedTrans(trans,
                           ToFloat(Get(trans, "debit", Num(0))),
                           ToFloat(Get(trans, "credit", Num(0))),
                           ToFloat(Get(trans, "balance", Num(0))),
                           ParsePdfDate(Get(trans, "date", Str("")), now))

StandardRecords(trans, now) == Appended(StandardizeRecord(trans, now))

RECURSIVE ConvertFrom(_, _, _)
ConvertFrom(records, now, i) ==
    IF i > Len(records) THEN <<>>
    ELSE StandardRecords(records[i], now) \o ConvertFrom(records, now, i + 1)

\* PDFParser.convert_to_standard_format(transactions)
ConvertToStandardFormat(records, now) == ConvertFrom(records, now, 1)

\* "if not standardized_transactions: raise"
StandardizedOrRaise(standardized) ==
    IF standardized = <<>> THEN Raise ELSE Ok(standardized)

\* PDFParser.parse_pdf_file from the extracted records on: the standardized
\* list, or the raised "No valid transactions found in PDF"
ParsePdfFile(records, now) ==
    StandardizedOrRaise(ConvertToStandardFormat(records, now))

\* str.find(sub, start): the first index (from 0) at or after start where sub
\* begins, or -1
Find(s, sub, start) ==
    IF \E i \in start..(Len(s) - Len(sub)) : SubSeq(s, i + 1, i + Len(sub)) = sub
    THEN Min({i \in start..(Len(s) - Len(sub)) : SubSeq(s, i + 1, i + Len(sub)) = sub})
    ELSE 0 - 1

\* s[a:b] for a >= 0; a negative b counts from the end of s
Slice(s, a, b) == SubSeq(s, a + 1, IF b < 0 THEN Len(s) + b ELSE b)

\* values json.loads returns: a list, an object, a number
JList(items) == [kind |-> "list", items |-> items, fields |-> <<>>]
JDict(fields) == [kind |-> "dict", items |-> <<>>, fields |-> fields]
JNumber == [kind |-> "number", items |-> <<>>, fields |-> <<>>]

\* the JSON text of one extracted record and the dict json.loads makes of it
RecordText ==
    "{\"date\": \"2024-01-15\", \"description\": \"Coffee\", \"debit\": 4.5, "
        \o "\"credit\": 0, \"balance\": 100}"

RecordDict ==
    [obj |-> TRUE,
     f |-> [date |-> Str("2024-01-15"), description |-> Str("Coffee"),
            debit |-> Num(450), credit |-> Num(0), balance |-> Num(10000)]]

\* json.loads on the JSON texts the responses of the pool hold; every other
\* text of the pool raises JSONDecodeError
JsonTexts ==
    ("[]" :> JList(<<>>))
        @@ ("[" \o RecordText \o "]" :> JList(<<RecordDict>>))
        @@ ("[5]" :> JList(<<[obj |-> FALSE, f |-> [text |-> Str("5")]]>>))
        @@ ("{\"transactions\": [" \o RecordText \o "]}" :>
                JDict([transactions |-> JList(<<RecordDict>>)]))
        @@ ("{\"transactions\": 5}" :> JDict([transactions |-> JNumber]))
        @@ ("{\"items\": []}" :> JDict([items |-> JList(<<>>)]))
        @@ ("5" :> JNumber)

JsonLoads(text) == IF text \in DOMAIN JsonTexts THEN Ok(JsonTexts[text]) ELSE Raise

\* the three backquotes of a Markdown fence; a text of the model holds the
\* character ~ where the response holds a backquote
Fence == "~~~"

\* json_str of _parse_llm_response: what follows the first fence tagged json
\* up to the next fence (find returns -1 when there is none), else the whole
\* output
JsonStr(llm) ==
    IF IsSubstr(Fence \o "json", llm)
    THEN Strip(Slice(llm, Find(llm, Fence \o "json", 0) + 7,
                     Find(llm, Fence, Find(llm, Fence \o "json", 0) + 7)))
    ELSE Strip(llm)

\* the if/elif/else on the parsed value
Transactions(parsed) ==
    IF parsed.kind = "dict" /\ "transactions" \in DOMAIN parsed.fields
    THEN Ok(parsed.fields.transactions)
    ELSE IF parsed.kind = "list" THEN Ok(parsed)
    ELSE Raise

\* PDFParser._parse_llm_response: the value returned, or the raised Exception
ParseLlmResponse(llm) ==
    IF ~JsonLoads(JsonStr(llm)).ok THEN Raise
    ELSE Transactions(JsonLoads(JsonStr(llm)).v)

-----------------------------------------------------------------------------
(* TransactionCategorizer *)

\* self.category_patterns, in declaration order
CategoryPatterns == <<
    [category |-> "Food & Dining",
     patterns |-> <<"starbucks", "mcdonald", "subway", "tim hortons", "pizza",
                    "restaurant", "cafe", "coffee", "uber eats", "doordash",
                    "skip", "food", "dining", "takeout", "delivery">>],
    [category |-> "Groceries",
     patterns |-> <<"grocery", "supermarket", "metro", "loblaws", "sobeys",
                    "walmart", "costco", "fresh", "market", "food basics">>],
    [category |-> "Transportation",
     patterns |-> <<"gas", "shell", "esso", "petro", "uber", "taxi",
                    "bus", "transit", "parking", "car wash", "automotive">>],
    [category |-> "Entertainment",
     patterns |-> <<"netflix", "spotify", "amazon prime", "disney", "hulu",
                    "cinema", "movie", "theatre", "gaming", "steam">>],
    [category |-> "Shopping",
     patterns |-> <<"amazon", "walmart", "target", "shopping", "store",
                    "purchase", "retail", "mall", "clothing", "electronics">>],
    [category |-> "Utilities",
     patterns |-> <<"hydro", "electric", "gas bill", "water", "internet",
                    "phone", "cable", "utility", "heating", "cooling">>],
    [category |-> "Healthcare",
     patterns |-> <<"pharmacy", "doctor", "medical", "dental", "hospital",
                    "clinic", "health", "medicine", "prescription">>],
    [category |-> "Banking",
     patterns |-> <<"atm", "withdrawal", "bank", "fee", "charge",
                    "transfer", "interest", "service charge">>],
    [category |-> "Income",
     patterns |-> <<"payroll", "salary", "deposit", "income", "wages",
                    "pay", "transfer received", "refund">>] >>

\* any pattern of the list found by re.search in the description
MatchesAny(patterns, description) ==
    \E k \in 1..Len(patterns) : IsSubstr(patterns[k], description)

\* self.category_patterns['Income']
IncomePatterns ==
    CategoryPatterns[CHOOSE k \in 1..Len(CategoryPatterns) :
                         CategoryPatterns[k].category = "Income"].patterns

\* a variant of the expense loop without the skip of 'Income'
ExpenseRulesWithIncome == {k \in 1..Len(CategoryPatterns) : TRUE}

\* the categories the expense loop tests: all but 'Income'
ExpenseRules ==
    {k \in 1..Len(CategoryPatterns) : CategoryPatterns[k].category # "Income"}

\* a variant of the expense loop that keeps the last category that matched
LastCategory(hits) ==
    IF hits = {} THEN "Other" ELSE CategoryPatterns[Max(hits)].category

\* the first category of the expense loop that matched, else 'Other'
FirstCategory(hits) ==
    IF hits = {} THEN "Other" ELSE CategoryPatterns[Min(hits)].category

\* the label categorize_transaction stores for a description and a type
CategoryFor(description, type) ==
    IF type = "Credit"
    THEN IF MatchesAny(IncomePatterns, description) THEN "Income" ELSE "Other Income"
    ELSE FirstCategory({k \in ExpenseRules :
                           MatchesAny(CategoryPatterns[k].patterns, description)})

\* dict.get(key, default)
Field(d, key, default) == IF key \in DOMAIN d THEN d[key] ELSE default

\* transaction['category'] = label
WithCategory(transaction, label) ==
    [k \in DOMAIN transaction \cup {"category"} |->
        IF k = "category" THEN label ELSE transaction[k]]

\* a variant of categorize_transaction that appends the label to the stored one
CategorizeAppending(transaction) ==
    IF Field(transaction, "description", Str("")).t # "str" THEN Raise
    ELSE Ok(WithCategory(transaction,
                         Field(transaction, "category", "") \o
                         CategoryFor(Lower(Field(transaction, "description", Str("")).s),
                                     Field(transaction, "type", ""))))

\* TransactionCategorizer.categorize_transaction: the dict after the call;
\* ok = FALSE is the AttributeError of .lower() on a description that is not text
CategorizeTransaction(transaction) ==
    IF Field(transaction, "description", Str("")).t # "str" THEN Raise
    ELSE Ok(WithCategory(transaction,
                         CategoryFor(Lower(Field(transaction, "description", Str("")).s),
                                     Field(transaction, "type", ""))))

\* TransactionCategorizer.categorize_batch: the list comprehension raises as
\* soon as one record does
CategorizeBatch(batch) ==
    IF \E i \in 1..Len(batch) : ~CategorizeTransaction(batch[i]).ok THEN Raise
    ELSE Ok([i \in 1..Len(batch) |-> CategorizeTransaction(batch[i]).v])

\* the list comprehension of categorize_batch on a list of references: each
\* dict is copied (a new object on the heap) and the copy is labelled; the
\* heap after the call, or the exception of the first record that raises
RECURSIVE CategorizeCopiesFrom(_, _, _)
CategorizeCopiesFrom(h, refs, i) ==
    IF i > Len(refs) THEN Ok(h)
    ELSE IF ~CategorizeTransaction(h[refs[i]]).ok THEN Raise
    ELSE CategorizeCopiesFrom(Append(h, CategorizeTransaction(h[refs[i]]).v), refs, i + 1)

\* a variant of the comprehension that labels the caller's dicts themselves
RECURSIVE CategorizeInPlaceFrom(_, _, _)
CategorizeInPlaceFrom(h, refs, i) ==
    IF i > Len(refs) THEN Ok(h)
    ELSE IF ~CategorizeTransaction(h[refs[i]]).ok THEN Raise
    ELSE CategorizeInPlaceFrom([h EXCEPT ![refs[i]] = CategorizeTransaction(h[refs[i]]).v],
                               refs, i + 1)

CategorizeBatchInPlace(h, refs) ==
    [heap |-> CategorizeInPlaceFrom(h, refs, 1), result |-> refs]

\* TransactionCategorizer.categorize_batch on a list of references: the heap
\* after the call and the references the returned list holds
CategorizeBatchRefs(h, refs) ==
    [heap |-> CategorizeCopiesFrom(h, refs, 1),
     result |-> [i \in 1..Len(refs) |-> Len(h) + i]]

\* the dicts a list of references holds
Deref(h, refs) == [i \in 1..Len(refs) |-> h[refs[i]]]

-----------------------------------------------------------------------------
(* DataAnalyzer *)

RECURSIVE SumAmounts(_, _)
SumAmounts(batch, i) ==
    IF i > Len(batch) THEN 0 ELSE batch[i].amount + SumAmounts(batch, i + 1)

\* df[df['amount'] > 0] and df[df['amount'] < 0]
IsInflow(transaction) == transaction.amount > 0
IsOutflow(transaction) == transaction.amount < 0

\* the dict _get_summary_stats returns (cents are exact, so round(x, 2) changes
\* nothing)
Summary(total_transactions, total_income, total_expenses) ==
    [total_transactions |-> total_transactions,
     total_income |-> total_income,
     total_expenses |-> total_expenses,
     net_income |-> total_income - total_expenses]

\* DataAnalyzer._get_summary_stats
SummaryStats(batch) ==
    Summary(Len(batch),
            SumAmounts(SelectSeq(batch, IsInflow), 1),
            Abs(SumAmounts(SelectSeq(batch, IsOutflow), 1)))

\* the {} analyze_transactions returns for an empty list
EmptyAnalysis == [k \in {} |-> 0]

\* round(a / b, n) on non-negative integers already scaled by 10^n: the
\* nearest integer, a tie going to the even one
RoundDiv(a, b) ==
    IF 2 * (a % b) > b THEN (a \div b) + 1
    ELSE IF 2 * (a % b) < b THEN a \div b
    ELSE IF (a \div b) % 2 = 0 THEN a \div b ELSE (a \div b) + 1

\* pd.to_datetime(df['date']) on the ISO text of a record
DateOf(transaction) ==
    [year |-> DigitsValue(SubSeq(transaction.date, 1, 4), 0),
     month |-> DigitsValue(SubSeq(transaction.date, 6, 7), 0),
     day |-> DigitsValue(SubSeq(transaction.date, 9, 10), 0)]

RECURSIVE DaysBeforeMonth(_, _)
DaysBeforeMonth(y, m) ==
    IF m = 1 THEN 0 ELSE DaysInMonth(y, m - 1) + DaysBeforeMonth(y, m - 1)

\* date.toordinal(): day 1 is 0001-01-01, a Monday
Ordinal(d) ==
    365 * (d.year - 1) + ((d.year - 1) \div 4) - ((d.year - 1) \div 100)
        + ((d.year - 1) \div 400) + DaysBeforeMonth(d.year, d.month) + d.day

\* Series.dt.weekday: Monday is 0
Weekday(d) == (Ordinal(d) + 6) % 7

\* Series.dt.day_name()
DayName(d) ==
    <<"Monday", "Tuesday", "Wednesday", "Thursday", "Friday", "Saturday",
      "Sunday">>[Weekday(d) + 1]

\* str(Period('M')) of a date
MonthKey(d) == Pad(d.year, 4) \o "-" \o Pad(d.month, 2)

\* the frame the analyses read: the records with the derived columns
\* df['date'].dt.to_period('M'), df['date'].dt.date and
\* df['date'].dt.day_name() beside them
Frame(batch) ==
    [i \in 1..Len(batch) |->
        [k \in DOMAIN batch[i] \cup {"month", "day", "day_of_week"} |->
            IF k = "month" THEN MonthKey(DateOf(batch[i]))
            ELSE IF k = "day" THEN DateOf(batch[i])
            ELSE IF k = "day_of_week" THEN DayName(DateOf(batch[i]))
            ELSE batch[i][k]]]

\* one group of df.groupby(column): the rows whose value in the column is v
Group(frame, column, v) == SelectSeq(frame, LAMBDA t : t[column] = v)

\* the keys of the groups of df.groupby(column)
GroupKeys(frame, column) == {frame[i][column] : i \in 1..Len(frame)}

\* abs(rows['amount'].sum())
Spent(rows) == Abs(SumAmounts(rows, 1))

\* one dict of the first loop of _analyze_by_category (the average is left out)
ExpenseEntry(rows, total_expenses) ==
    [total_spent |-> Spent(rows),
     transaction_count |-> Len(rows),
     percentage_of_total |->
         IF total_expenses > 0 THEN RoundDiv(Spent(rows) * 1000, total_expenses) ELSE 0,
     type |-> "expense"]

\* one dict of the second loop of _analyze_by_category
IncomeEntry(rows) ==
    [total_earned |-> SumAmounts(rows, 1),
     transaction_count |-> Len(rows),
     percentage_of_total |-> 0,
     type |-> "income"]

\* the categories dict of _analyze_by_category: the dicts of the income loop
\* are stored after those of the expense loop, under the same keys;
\* percentages are in tenths of a percent
ByCategory(expenses, income) ==
    [c \in GroupKeys(expenses, "category") \cup GroupKeys(income, "category") |->
        IF c \in GroupKeys(income, "category")
        THEN IncomeEntry(Group(income, "category", c))
        ELSE ExpenseEntry(Group(expenses, "category", c), Spent(expenses))]

\* DataAnalyzer._analyze_by_category
AnalyzeByCategory(batch) ==
    ByCategory(SelectSeq(batch, IsOutflow), SelectSeq(batch, IsInflow))

\* the dict _analyze_by_month stores for the rows of one month
MonthEntry(rows) ==
    [total_income |-> SumAmounts(SelectSeq(rows, IsInflow), 1),
     total_expenses |-> Spent(SelectSeq(rows, IsOutflow)),
     net_income |-> SumAmounts(SelectSeq(rows, IsInflow), 1)
                        - Spent(SelectSeq(rows, IsOutflow)),
     transaction_count |-> Len(rows)]

\* DataAnalyzer._analyze_by_month
AnalyzeByMonth(batch) ==
    [k \in GroupKeys(batch, "month") |-> MonthEntry(Group(batch, "month", k))]

\* daily_spending of _analyze_spending_trends
DailySpending(expenses) ==
    [d \in GroupKeys(expenses, "day") |-> Spent(Group(expenses, "day", d))]

\* Series.idxmax() (sign = 1) and idxmin() (sign = -1) of a series indexed by
\* day: the earliest day holding the extreme value
IdxExtreme(daily, sign) ==
    CHOOSE d \in DOMAIN daily :
        /\ \A e \in DOMAIN daily : sign * daily[e] <= sign * daily[d]
        /\ \A e \in DOMAIN daily : daily[e] = daily[d] => Ordinal(d) <= Ordinal(e)

DayAmount(daily, d) == [date |-> SubSeq(IsoFormat(d), 1, 10), amount |-> daily[d]]

\* DataAnalyzer._analyze_spending_trends (the two averages are left out)
SpendingTrends(expenses) ==
    IF expenses = <<>> THEN EmptyAnalysis
    ELSE [highest_spending_day |->
              DayAmount(DailySpending(expenses), IdxExtreme(DailySpending(expenses), 1)),
          lowest_spending_day |->
              DayAmount(DailySpending(expenses), IdxExtreme(DailySpending(expenses), 0 - 1))]

\* the default of the limit parameter of _get_top_expenses
TopLimit == 10

\* the position of the first row holding the largest amount
FirstLargest(rows) ==
    Min({i \in 1..Len(rows) : \A j \in 1..Len(rows) : rows[j].amount <= rows[i].amount})

\* DataFrame.nlargest(n, 'amount', keep='first'): the n rows of largest
\* amount, largest first, rows of equal amount in their order in the frame
RECURSIVE NLargest(_, _)
NLargest(rows, n) ==
    IF n = 0 \/ rows = <<>> THEN <<>>
    ELSE <<rows[FirstLargest(rows)]>>
             \o NLargest(SubSeq(rows, 1, FirstLargest(rows) - 1)
                              \o SubSeq(rows, FirstLargest(rows) + 1, Len(rows)),
                         n - 1)

\* one dict of the list _get_top_expenses returns
TopEntry(row) ==
    [date |-> IsoFormat(DateOf(row)),
     description |-> Field(row, "description", Null),
     amount |-> Abs(row.amount),
     category |-> row.category]

\* DataAnalyzer._get_top_expenses
TopExpenses(batch) ==
    [i \in 1..Len(NLargest(SelectSeq(batch, IsOutflow), TopLimit)) |->
        TopEntry(NLargest(SelectSeq(batch, IsOutflow), TopLimit)[i])]

\* DataAnalyzer._analyze_income_vs_expenses (the two averages are left out);
\* the ratio is in hundredths
IncomeVsExpenses(income, expenses) ==
    [income_transaction_count |-> Len(income),
     expense_transaction_count |-> Len(expenses),
     income_to_expense_ratio |->
         IF expenses # <<>> THEN RoundDiv(SumAmounts(income, 1) * 100, Spent(expenses))
         ELSE 0]

\* the days between the first and the last date of the frame
DateRange(batch) ==
    Max({Ordinal(DateOf(batch[i])) : i \in 1..Len(batch)})
        - Min({Ordinal(DateOf(batch[i])) : i \in 1..Len(batch)})

\* DataAnalyzer._analyze_spending_patterns: average_daily_spending (here in
\* whole cents) is stored only for a frame spanning more than one day
SpendingPatterns(batch, expenses) ==
    IF DateRange(batch) > 0
    THEN [spending_by_day |->
              [n \in GroupKeys(expenses, "day_of_week") |->
                  Spent(Group(expenses, "day_of_week", n))],
          average_daily_spending |-> RoundDiv(Spent(expenses), DateRange(batch))]
    ELSE [spending_by_day |->
              [n \in GroupKeys(expenses, "day_of_week") |->
                  Spent(Group(expenses, "day_of_week", n))]]

\* one dict of ai_insights; message holds the text of the f-string as it is
\* written, without the numbers formatted into it, and amount is in cents, a
\* quotient rounded to the nearest cent
Insight(type, severity, title, message, amount, recommendation) ==
    [type |-> type, severity |-> severity, title |-> title, message |-> message,
     amount |-> amount, recommendation |-> recommendation]

\* the position of a month key 'YYYY-MM' in time
MonthIndex(k) == DigitsValue(SubSeq(k, 1, 4), 0) * 12 + DigitsValue(SubSeq(k, 6, 7), 0)

\* sorted(monthly_data.keys())
RECURSIVE SortedMonths(_)
SortedMonths(keys) ==
    IF keys = {} THEN <<>>
    ELSE SortedMonths(keys \ {CHOOSE k \in keys :
                                 \A j \in keys : MonthIndex(j) <= MonthIndex(k)})
         \o <<CHOOSE k \in keys : \A j \in keys : MonthIndex(j) <= MonthIndex(k)>>

\* a variant that compares the last month with all the months before it
AllPreviousMonths(months) == SubSeq(months, 1, Len(months) - 1)

\* the months the last month is compared with: months[-3:-1], or months[:-1]
\* of a list of two
PreviousMonths(months) ==
    IF Len(months) >= 3 THEN SubSeq(months, Len(months) - 2, Len(months) - 1)
    ELSE SubSeq(months, 1, Len(months) - 1)

RECURSIVE TotalExpenses(_, _, _)
TotalExpenses(by_month, months, i) ==
    IF i > Len(months) THEN 0
    ELSE by_month[months[i]].total_expenses + TotalExpenses(by_month, months, i + 1)

\* the month comparison of _detect_spending_anomalies for the spending of the
\* last month and the sum over count previous months:
\* change_percent = (current - sum / count) / (sum / count) * 100
SpendingChange(current, sum, count) ==
    IF ~(sum > 0) THEN <<>>
    ELSE IF (current * count - sum) * 100 > 25 * sum
    THEN <<Insight("spending_spike",
                   IF (current * count - sum) * 100 > 50 * sum THEN "high" ELSE "medium",
                   "Unusual Spending Detected",
                   "Your spending increased by {change_percent:.0f}% this month "
                       \o "compared to your average.",
                   RoundDiv(current * count - sum, count),
                   "Review your recent transactions to identify the cause of "
                       \o "increased spending.")>>
    ELSE IF (current * count - sum) * 100 < (0 - 25) * sum
    THEN <<Insight("spending_decrease", "positive", "Great Spending Control!",
                   "Your spending decreased by {abs(change_percent):.0f}% this month.",
                   RoundDiv(sum - current * count, count),
                   "Consider putting the saved money into your emergency fund or "
                       \o "investments.")>>
    ELSE <<>>

MonthAnomalies(by_month, months) ==
    IF Len(months) < 2 THEN <<>>
    ELSE SpendingChange(by_month[months[Len(months)]].total_expenses,
                        TotalExpenses(by_month, PreviousMonths(months), 1),
                        Len(PreviousMonths(months)))

\* the labels a record can carry, in the order sorted() gives them
SortedLabels == <<"Banking", "Entertainment", "Food & Dining", "Groceries",
                  "Healthcare", "Income", "Other", "Other Income", "Shopping",
                  "Transportation", "Uncategorized", "Utilities">>

\* the loop over analysis['by_category'].items(): the dicts above 40 percent,
\* which are expense dicts, met in the sorted order of the groupby
Dominant(by_category) ==
    SelectSeq(SortedLabels,
              LAMBDA c : c \in DOMAIN by_category /\ by_category[c].percentage_of_total > 400)

CategoryAnomalies(by_category) ==
    [i \in 1..Len(Dominant(by_category)) |->
        Insight("category_dominance", "medium",
                "High " \o Dominant(by_category)[i] \o " Spending",
                Dominant(by_category)[i]
                    \o " represents {percentage_of_total:.0f}% of your total spending.",
                by_category[Dominant(by_category)[i]].total_spent,
                "Consider ways to reduce " \o Dominant(by_category)[i]
                    \o " expenses or create a specific budget for this category.")]

\* DataAnalyzer._detect_spending_anomalies
DetectSpendingAnomalies(analysis_so_far) ==
    MonthAnomalies(analysis_so_far.by_month,
                   SortedMonths(DOMAIN analysis_so_far.by_month))
        \o CategoryAnomalies(analysis_so_far.by_category)

\* df['date'] >= datetime.now().replace(day=1): the replaced value keeps the
\* time of day of now, the dates of the records are at midnight
SinceMonthStart(transaction, now) ==
    \/ Ordinal(DateOf(transaction)) > Ordinal([now EXCEPT !.day = 1])
    \/ Ordinal(DateOf(transaction)) = Ordinal([now EXCEPT !.day = 1]) /\ now.midnight

\* the comparison of _predict_budget_risks: spending / days_elapsed *
\* days_in_month > mean of the monthly expenses * 1.2
Overrun(spending, days_elapsed, days_in_month, sum, count) ==
    spending * days_in_month * count * 10 > 12 * sum * days_elapsed

\* projected_spending - avg_monthly_spending
Excess(spending, days_elapsed, days_in_month, sum, count) ==
    RoundDiv(spending * days_in_month * count - sum * days_elapsed, days_elapsed * count)

\* DataAnalyzer._predict_budget_risks; days_elapsed is now.day - 1
PredictBudgetRisks(batch, by_month, now) ==
    IF /\ \E i \in 1..Len(batch) : SinceMonthStart(batch[i], now)
       /\ now.day - 1 > 0 /\ now.day - 1 < DaysInMonth(now.year, now.month)
       /\ Cardinality(DOMAIN by_month) >= 2
       /\ Overrun(Spent(SelectSeq(batch, LAMBDA t : IsOutflow(t) /\ SinceMonthStart(t, now))),
                  now.day - 1, DaysInMonth(now.year, now.month),
                  TotalExpenses(by_month, SortedMonths(DOMAIN by_month), 1),
                  Cardinality(DOMAIN by_month))
    THEN <<Insight("budget_risk", "high", "Budget Overrun Risk",
                   "Based on current spending, you may exceed your average monthly "
                       \o "budget by ${projected_spending - avg_monthly_spending:.2f}.",
                   Excess(Spent(SelectSeq(batch, LAMBDA t : IsOutflow(t)
                                                        /\ SinceMonthStart(t, now))),
                          now.day - 1, DaysInMonth(now.year, now.month),
                          TotalExpenses(by_month, SortedMonths(DOMAIN by_month), 1),
                          Cardinality(DOMAIN by_month)),
                   "Consider reducing discretionary spending for the remainder of "
                       \o "the month.")>>
    ELSE <<>>

\* amounts in cents strictly between -20 and 0
IsSmall(transaction) == transaction.amount < 0 /\ transaction.amount > 0 - 2000

\* the categories whose small purchases number 5 or more and total 50 or more
Frequent(small) ==
    SelectSeq(SortedLabels,
              LAMBDA c : /\ Len(Group(small, "category", c)) >= 5
                         /\ Spent(Group(small, "category", c)) >= 5000)

\* DataAnalyzer._identify_savings_opportunities
IdentifySavingsOpportunities(batch) ==
    [i \in 1..Len(Frequent(SelectSeq(batch, IsSmall))) |->
        Insight("savings_opportunity", "medium",
                "Small " \o Frequent(SelectSeq(batch, IsSmall))[i] \o " Purchases Add Up",
                "{count} small " \o Frequent(SelectSeq(batch, IsSmall))[i]
                    \o " purchases totaled ${total_spent:.2f}.",
                Spent(Group(SelectSeq(batch, IsSmall), "category",
                            Frequent(SelectSeq(batch, IsSmall))[i])),
                "Consider bulk purchasing or setting a weekly limit for "
                    \o Frequent(SelectSeq(batch, IsSmall))[i] \o " expenses.")]

IsWeekend(transaction) == Weekday(DateOf(transaction)) >= 5

\* the test of _analyze_spending_habits on the two sums
WeekendPattern(weekend_spending, weekday_spending) ==
    IF /\ weekend_spending > 0 /\ weekday_spending > 0
       /\ weekend_spending * 10 > 4 * (weekend_spending + weekday_spending)
    THEN <<Insight("spending_pattern", "info", "Weekend Spending Pattern",
                   "{weekend_ratio*100:.0f}% of your spending happens on weekends.",
                   weekend_spending,
                   "Consider setting a weekend spending limit to better control "
                       \o "your budget.")>>
    ELSE <<>>

\* DataAnalyzer._analyze_spending_habits
AnalyzeSpendingHabits(expenses) ==
    WeekendPattern(Spent(SelectSeq(expenses, IsWeekend)),
                   Spent(SelectSeq(expenses, LAMBDA t : ~IsWeekend(t))))

\* a variant of _assess_financial_health whose low-savings band reaches up to
\* the positive band
AssessWithoutGap(total_income, total_expenses) ==
    IF ~(total_income > 0) THEN <<>>
    ELSE IF total_income - total_expenses < 0
    THEN <<Insight("financial_health", "high", "Spending Exceeds Income",
                   "You spent ${total_expenses - total_income:.2f} more than you earned.",
                   total_expenses - total_income,
                   "Immediate action needed: reduce expenses or increase income to "
                       \o "avoid debt.")>>
    ELSE IF (total_income - total_expenses) * 5 < total_income
    THEN <<Insight("financial_health", "medium", "Low Savings Rate",
                   "You're only saving {savings_rate*100:.1f}% of your income.",
                   RoundDiv(total_income, 5) - (total_income - total_expenses),
                   "Financial experts recommend saving at least 20% of income. "
                       \o "Consider reducing expenses.")>>
    ELSE <<Insight("financial_health", "positive", "Excellent Savings Rate!",
                   "You're saving {savings_rate*100:.1f}% of your income.",
                   total_income - total_expenses,
                   "Great job! Consider investing your savings for long-term "
                       \o "growth.")>>

\* DataAnalyzer._assess_financial_health:
\* savings_rate = (total_income - total_expenses) / total_income
AssessFinancialHealth(total_income, total_expenses) ==
    IF ~(total_income > 0) THEN <<>>
    ELSE IF total_income - total_expenses < 0
    THEN <<Insight("financial_health", "high", "Spending Exceeds Income",
                   "You spent ${total_expenses - total_income:.2f} more than you earned.",
                   total_expenses - total_income,
                   "Immediate action needed: reduce expenses or increase income to "
                       \o "avoid debt.")>>
    ELSE IF (total_income - total_expenses) * 10 < total_income
    THEN <<Insight("financial_health", "medium", "Low Savings Rate",
                   "You're only saving {savings_rate*100:.1f}% of your income.",
                   RoundDiv(total_income, 5) - (total_income - total_expenses),
                   "Financial experts recommend saving at least 20% of income. "
                       \o "Consider reducing expenses.")>>
    ELSE IF (total_income - total_expenses) * 5 >= total_income
    THEN <<Insight("financial_health", "positive", "Excellent Savings Rate!",
                   "You're saving {savings_rate*100:.1f}% of your income.",
                   total_income - total_expenses,
                   "Great job! Consider investing your savings for long-term "
                       \o "growth.")>>
    ELSE <<>>

\* a variant of _generate_ai_insights that assesses the financial health first
GenerateHealthFirst(batch, analysis_so_far, now) ==
    AssessFinancialHealth(analysis_so_far.summary.total_income,
                          analysis_so_far.summary.total_expenses)
        \o DetectSpendingAnomalies(analysis_so_far)
        \o PredictBudgetRisks(batch, analysis_so_far.by_month, now)
        \o IdentifySavingsOpportunities(batch)
        \o AnalyzeSpendingHabits(SelectSeq(batch, IsOutflow))

\* DataAnalyzer._generate_ai_insights
GenerateAiInsights(batch, analysis_so_far, now) ==
    DetectSpendingAnomalies(analysis_so_far)
        \o PredictBudgetRisks(batch, analysis_so_far.by_month, now)
        \o IdentifySavingsOpportunities(batch)
        \o AnalyzeSpendingHabits(SelectSeq(batch, IsOutflow))
        \o AssessFinancialHealth(analysis_so_far.summary.total_income,
                                 analysis_so_far.summary.total_expenses)

\* the seven entries analyze_transactions stores before the insights
Sections(batch) ==
    [summary |-> SummaryStats(batch),
     by_category |-> AnalyzeByCategory(batch),
     by_month |-> AnalyzeByMonth(batch),
     spending_trends |-> SpendingTrends(SelectSeq(batch, IsOutflow)),
     top_expenses |-> TopExpenses(batch),
     income_vs_expenses |->
         IncomeVsExpenses(SelectSeq(batch, IsInflow), SelectSeq(batch, IsOutflow)),
     spending_patterns |-> SpendingPatterns(batch, SelectSeq(batch, IsOutflow))]

\* analysis['ai_insights'] = ...
WithInsights(analysis_so_far, insights) ==
    [k \in DOMAIN analysis_so_far \cup {"ai_insights"} |->
        IF k = "ai_insights" THEN insights ELSE analysis_so_far[k]]

\* a variant of analyze_transactions that returns before the insights
AnalyzeWithoutInsights(batch, now) ==
    IF batch = <<>> THEN EmptyAnalysis ELSE Sections(Frame(batch))

\* DataAnalyzer.analyze_transactions, called when datetime.now() is now
AnalyzeTransactions(batch, now) ==
    IF batch = <<>> THEN EmptyAnalysis
    ELSE WithInsights(Sections(Frame(batch)),
                      GenerateAiInsights(Frame(batch), Sections(Frame(batch)), now))

\* the KeyError of analyze_transactions on a frame without a column it reads
\* (row['description'] is read for expense rows only)
AnalysisRaises(batch) ==
    /\ batch # <<>>
    /\ \/ \E k \in {"date", "amount", "category"} :
              \A i \in 1..Len(batch) : k \notin DOMAIN batch[i]
       \/ /\ \A i \in 1..Len(batch) : "description" \notin DOMAIN batch[i]
          /\ SelectSeq(batch, IsOutflow) # <<>>

-----------------------------------------------------------------------------
(* FileProcessor and the files an upload can carry *)

\* self.allowed_extensions
AllowedExtensions == {"csv", "xlsx", "xls"}

Last(parts) == parts[Len(parts)]

\* FileProcessor.allowed_file
AllowedFile(filename) ==
    IsSubstr(".", filename) /\ Lower(Last(Split(filename, "."))) \in AllowedExtensions

\* the path save_file builds (uuid prefix and upload folder left abstract)
SavedPath(filename) == "data/uploads/" \o filename

\* pdfplumber.open(file_path): only a PDF document opens
OpensAsPdf(content) == content.kind = "pdf"

\* a variant of parse_file without the check for an empty list
ParseFileKeepEmpty(content) ==
    IF ~OpensAsPdf(content) THEN Raise
    ELSE Ok(DocumentTransactions(content.pages, 1))

\* "if not all_transactions: raise"
AllTransactionsOrRaise(all_transactions) ==
    IF all_transactions = <<>> THEN Raise ELSE Ok(all_transactions)

\* DataParser.parse_file: the transaction list, or the raised exception
ParseFile(content) ==
    IF ~OpensAsPdf(content) THEN Raise
    ELSE AllTransactionsOrRaise(DocumentTransactions(content.pages, 1))

-----------------------------------------------------------------------------
(* Bounds and input pools *)

MaxRows == 2       \* data rows of a generated single-table document
MaxTables == 2     \* tables of a multi-table document
MaxPages == 2      \* pages of a multi-table document
MaxRecords == 2    \* records in an extraction result
MaxBatch == 2      \* dicts in a list handed to the categorizer directly

SeqsUpTo(S, n) == UNION {[1..k -> S] : k \in 0..n}

HeaderPool == <<
    <<Str("Date"), Str("Description"), Str("Amount"), Str("Balance")>>,
    <<Str(" Transaction Date "), Str("Details"), Str("Withdrawals"), Str("Deposits")>>,
    <<Str("Item"), Str("Qty"), Str("Price"), Str("Total")>>,
    <<Str("Date"), Str("Description"), Str("Debit"), Str("Credit Amount")>>,
    <<Str("Date"), Str("Description"), Str("Debit"), Null>>,
    <<Str("Date"), Str("Details"), Str("Amount"), Str("Amount")>> >>

RowPool == <<
    <<Str("2024-01-15"), Str("Coffee Shop"), Str("-50.00"), Str("")>>,
    <<Str("01/02/2024"), Str("Payroll deposit"), Str("$1,200"), Str("0")>>,
    <<Str("2024-01-20"), Str("Refund"), Str("0"), Str("75")>>,
    <<Str("3 Feb 2024"), Str(" Transfer "), Str("30"), Str("40.5")>>,
    <<Str("31/02/2024"), Str("Walmart"), Str("10"), Null>>,
    <<Null, Str("Netflix"), Str("12"), Null>>,
    <<Str("2024-01-22"), Str(" "), Str("10"), Null>>,
    <<Str("2024-01-23"), Str("ATM withdrawal"), Str("abc"), Str("n/a")>> >>

MakeTable(h, rows) == <<HeaderPool[h]>> \o [i \in 1..Len(rows) |-> RowPool[rows[i]]]

\* documents of one page holding one table: every header row with every
\* sequence of 1..MaxRows rows of the pool
SingleTableDocs ==
    {<< <<MakeTable(h, rows)>> >> :
        h \in 1..Len(HeaderPool),
        rows \in SeqsUpTo(1..Len(RowPool), MaxRows) \ {<<>>}}

\* tables of the multi-table documents: transaction tables with good and bad
\* rows, a table that is no transaction table, a header without rows
TablePool == {
    MakeTable(1, <<1, 5, 2>>),
    MakeTable(2, <<3, 8, 4>>),
    MakeTable(3, <<1>>),
    MakeTable(1, <<>>) }

RECURSIVE DocsOf(_, _)
DocsOf(p, t) ==
    IF p = 0 THEN {<<>>}
    ELSE UNION {{<<page>> \o rest : rest \in DocsOf(p - 1, t - Len(page))} :
                   page \in SeqsUpTo(TablePool, t)}

\* documents of up to MaxPages pages holding up to MaxTables tables in all
MultiTableDocs == UNION {DocsOf(p, MaxTables) : p \in 0..MaxPages}

\* a page holding an empty table before a transaction table
EmptyTableDoc == << << <<>>, MakeTable(4, <<2, 3>>) >> >>

Documents == SingleTableDocs \cup MultiTableDocs \cup {EmptyTableDoc}

\* contents sent under every file name: a PDF document, a CSV or Excel export
\* holding one table, or bytes no library reads
\* a table with the headers date, description, amount and type: a debit row, a
\* credit row and a row of an unknown type
TypedTable == <<
    <<Str(" DATE "), Str("Description"), Str("Amount"), Str("Type")>>,
    <<Str("2024-01-16"), Str("Rent"), Str("900.00"), Str("Debit")>>,
    <<Str("2024-01-17"), Str("Salary"), Str("1200.00"), Str("Credit")>>,
    <<Str("2024-01-18"), Str("Gift"), Str("20"), Str("Banana")>> >>

OtherContents ==
    [kind : {"pdf"}, pages : {<< <<MakeTable(1, <<1, 2>>)>> >>}]
        \cup [kind : {"pdf", "csv", "xlsx"}, pages : {<< <<TypedTable>> >>}]
        \cup [kind : {"csv", "xlsx"},
              pages : {<< <<MakeTable(1, <<1, 2>>)>> >>, << <<MakeTable(1, <<7>>)>> >>}]
        \cup {[kind |-> "corrupt", pages |-> <<>>]}

Filenames == {"statement.pdf", "export.csv", "book.XLSX", "old.xls", "notes.txt",
              "README", ""}

NoContent == [kind |-> "none", pages |-> <<>>]

\* request.files: no 'file' part, or a file with a name and content; a PDF
\* document arrives under its own name or under a name save_file accepts
Uploads ==
    {[present |-> FALSE, filename |-> "", content |-> NoContent]}
        \cup [present : {TRUE}, filename : {"statement.pdf", "export.csv"},
              content : [kind : {"pdf"}, pages : Documents]]
        \cup [present : {TRUE}, filename : Filenames, content : OtherContents]

Obj(f) == [obj |-> TRUE, f |-> f]

RecordPool == {
    Obj([date |-> Str("2024-01-15"), description |-> Str("Coffee"),
         debit |-> Num(450), credit |-> Num(0), balance |-> Num(10000)]),
    Obj([date |-> Str("01/20/2024"), description |-> Str("Salary"),
         debit |-> Str("0.0"), credit |-> Str("1500.00"), balance |-> Num(160000)]),
    Obj([date |-> Str("garbage"), description |-> Str(""),
         debit |-> Num(2000), credit |-> Num(3000)]),
    Obj([date |-> Str("2024-02-01"), description |-> Str("Fee"),
         debit |-> Str("abc"), credit |-> Num(500), balance |-> Num(0)]),
    Obj([date |-> Str("2024-02-02"), description |-> Str("Void"),
         debit |-> Num(0), balance |-> Num(0)]),
    Obj([date |-> Str("2024-02-03"), description |-> Str("Reversal"),
         debit |-> Num(0 - 500), credit |-> Num(0), balance |-> Num(0)]),
    Obj([date |-> Str("2024-02-04"), description |-> Str("Rent"),
         debit |-> Num(90000), credit |-> Num(0), balance |-> Null]),
    Obj([date |-> Null, description |-> Null, credit |-> Num(2500)]),
    Obj([date |-> Str("2024-02-05"), description |-> Str("Refund"),
         debit |-> Num(0), credit |-> Num(1200), balance |-> Str("n/a")]),
    [obj |-> FALSE, f |-> [text |-> Str("n/a")]] }

\* the JSON or other text inside a response
Bodies == (DOMAIN JsonTexts) \cup {"oops", ""}

\* response.content of the LLM: a body alone, padded, in a fenced block alone
\* or between prose, after an opening fence that is never closed, and in a
\* fence without the json tag
ResponsePool ==
    UNION {{b,
            " " \o b \o "\n",
            Fence \o "json\n" \o b \o "\n" \o Fence,
            "Here you go:\n" \o Fence \o "json\n" \o b \o "\n" \o Fence \o "\nDone.",
            Fence \o "json\n" \o b \o "\n",
            Fence \o "json\n" \o b,
            Fence \o "\n" \o b \o "\n" \o Fence} : b \in Bodies}

\* the days datetime.now() may fall on
Clock == {[year |-> 2024, month |-> 2, day |-> 29, midnight |-> FALSE],
          [year |-> 2026, month |-> 11, day |-> 5, midnight |-> FALSE],
          [year |-> 2026, month |-> 11, day |-> 5, midnight |-> TRUE]}

\* a transaction dict as the parsers build it
Dict(date, description, amount, type, category) ==
    [date |-> date, description |-> description, amount |-> amount,
     type |-> type, category |-> category]

\* dicts handed to categorize_batch and analyze_transactions directly: records
\* of both parsers (a positive amount typed Debit as DataParser emits it, a
\* null description as PDFParser emits it), a record labelled before, and
\* dicts without a description, a type or a category
TransactionPool == {
    Dict("2024-01-15T00:00:00", Str("AMAZON PRIME membership"), 0 - 1499, "Debit",
         "Uncategorized"),
    Dict("2024-02-20T00:00:00", Str("Walmart"), 0 - 10000, "Debit", "Shopping"),
    Dict("2024-02-24T00:00:00", Str("Gas bill"), 0 - 6000, "Debit", "Uncategorized"),
    Dict("2024-02-24T00:00:00", Str("Gas bill"), 0 - 6000, "Debit", "Utilities"),
    Dict("2024-01-31T00:00:00", Str("Salary"), 200000, "Credit", "Uncategorized"),
    Dict("2024-02-20T00:00:00", Str("Coffee Shop"), 5000, "Debit", "Uncategorized"),
    Dict("2024-02-21T00:00:00", Str("coffee"), 0 - 500, "Debit", "Uncategorized"),
    Dict("2024-02-22T00:00:00", Null, 2500, "Credit", "Uncategorized"),
    [date |-> "2024-02-23T00:00:00", amount |-> 0 - 700],
    [date |-> "2026-11-03T00:00:00", description |-> Str("Transfer"), amount |-> 100,
     type |-> "Credit"],
    Dict("2026-10-03T00:00:00", Str("Pharmacy refund desk"), 0 - 2000, "Debit",
         "Income") }

\* an outflow and an inflow as PDFParser emits them, not yet labelled
Expense(date, description, cents) ==
    Dict(date \o "T00:00:00", Str(description), 0 - cents, "Debit", "Uncategorized")

Earning(date, description, cents) ==
    Dict(date \o "T00:00:00", Str(description), cents, "Credit", "Uncategorized")

\* statements of two expense categories in which the first holds 40.0, 40.04
\* and 40.1 percent of the spending
ShareStatements == {
    <<Expense("2024-02-20", "Walmart", 4000), Expense("2024-02-21", "Uber", 6000)>>,
    <<Expense("2024-02-20", "Walmart", 4004), Expense("2024-02-21", "Uber", 5996)>>,
    <<Expense("2024-02-20", "Walmart", 4010), Expense("2024-02-21", "Uber", 5990)>> }

\* statements of one month with an income of 1000.00 and expenses at and
\* between the bounds of the savings bands, and one without income
HealthStatements ==
    {<<Earning("2024-02-01", "Salary", 100000), Expense("2024-02-05", "Rent", spent)>> :
        spent \in {120000, 100000, 95000, 90000, 85000, 80000, 75000}}
        \cup {<<Expense("2024-02-05", "Rent", 75000)>>}

\* statements of three months with expenses of 100.00 and 200.00 before a last
\* month at and around the 25 and 50 percent bounds, and one of four months
MonthStatements ==
    {<<Expense("2024-01-10", "Rent", 10000), Expense("2024-02-10", "Rent", 20000),
       Expense("2024-03-10", "Rent", spent)>> :
        spent \in {15000, 18750, 18751, 22500, 22501, 11250, 11249}}
        \cup {<<Expense("2024-03-10", "Rent", 22501), Expense("2023-12-10", "Rent", 100000),
                Expense("2024-01-10", "Rent", 10000), Expense("2024-02-10", "Rent", 20000)>>}

\* statements of two months whose later expense is dated on the first and on
\* the second day of the month of the later clock days
MonthStartStatements ==
    {<<Expense("2026-10-03", "Rent", 10000), Expense("2026-11-01", "Rent", 10000)>>,
     <<Expense("2026-10-03", "Rent", 10000), Expense("2026-11-02", "Rent", 10000)>>}

\* a statement of January and February 2024 that gives every rule family
\* something to report on 2024-02-29: five small coffee purchases, two of
\* them on a weekend, a rent far above that of January, and a small income
BusyStatement == <<
    Earning("2024-01-05", "Salary", 10000),
    Expense("2024-01-10", "Rent", 2000),
    Expense("2024-02-03", "coffee", 1500),
    Expense("2024-02-04", "coffee", 1500),
    Expense("2024-02-05", "coffee", 1500),
    Expense("2024-02-06", "coffee", 1500),
    Expense("2024-02-07", "coffee", 1500),
    Expense("2024-02-10", "Rent", 30000) >>

\* whole statements handed to categorize_batch and analyze_transactions
Statements ==
    ShareStatements \cup HealthStatements \cup MonthStatements \cup MonthStartStatements
        \cup {BusyStatement}

\* the lists a caller hands over: every list of up to MaxBatch dicts of the
\* pool, and the statements
Batches == SeqsUpTo(TransactionPool, MaxBatch) \cup Statements

-----------------------------------------------------------------------------
(* The entry points: upload_and_analyze (app.py) step by step, and          *)
(* PDFParser.parse_pdf_file applied to an extraction result.                *)

EmptyResponse ==
    [status |-> 0, success |-> FALSE, error |-> "", count |-> 0,
     transactions |-> <<>>, analysis |-> EmptyAnalysis]

\* jsonify({'error': message}), status
ErrorResponse(status, message) ==
    [EmptyResponse EXCEPT !.status = status, !.error = message]

\* the jsonify of the success payload
SuccessResponse(parsed, labelled, result) ==
    [status |-> 200, success |-> TRUE, error |-> "", count |-> Len(parsed),
     transactions |-> labelled, analysis |-> result]

Init ==
    /\ pc = "idle"
    /\ upload = [present |-> FALSE, filename |-> "", content |-> NoContent]
    /\ file_path = ""
    /\ disk = {}
    /\ raw_records = <<>>
    /\ transactions = <<>>
    /\ categorized = <<>>
    /\ analysis = EmptyAnalysis
    /\ response = EmptyResponse
    /\ heap = <<>>
    /\ given = <<>>
    /\ labelled_once = <<>>
    /\ labelled_twice = <<>>
    /\ reanalysis = EmptyAnalysis
    /\ called_at = <<>>
    /\ llm_output = ""

\* a POST to /api/upload-and-analyze arrives
UploadReceived ==
    /\ pc = "idle"
    /\ \E u \in Uploads : upload' = u
    /\ pc' = "check"
    /\ UNCHANGED <<file_path, disk, raw_records, transactions, categorized,
                   analysis, response>>
    /\ UNCHANGED <<lib_vars, llm_output>>

\* the two 400 guards of upload_and_analyze
CheckRequest ==
    /\ pc = "check"
    /\ IF ~upload.present
       THEN response' = ErrorResponse(400, "No file provided") /\ pc' = "done"
       ELSE IF upload.filename = ""
       THEN response' = ErrorResponse(400, "No file selected") /\ pc' = "done"
       ELSE response' = response /\ pc' = "save"
    /\ UNCHANGED <<upload, file_path, disk, raw_records, transactions,
                   categorized, analysis>>
    /\ UNCHANGED <<lib_vars, llm_output>>

\* file_path = processor.save_file(file)
SaveFile ==
    /\ pc = "save"
    /\ IF AllowedFile(upload.filename)
       THEN /\ file_path' = SavedPath(upload.filename)
            /\ disk' = disk \cup {SavedPath(upload.filename)}
            /\ response' = response
            /\ pc' = "parse"
       ELSE /\ response' = ErrorResponse(500, "File type not allowed")
            /\ pc' = "done"
            /\ UNCHANGED <<file_path, disk>>
    /\ UNCHANGED <<upload, raw_records, transactions, categorized, analysis>>
    /\ UNCHANGED <<lib_vars, llm_output>>

\* transactions = parser.parse_file(file_path)
ParseUploaded ==
    /\ pc = "parse"
    /\ LET Returned(r) ==
               IF r.ok
               THEN transactions' = r.v /\ response' = response /\ pc' = "cleanup"
               ELSE /\ response' = ErrorResponse(500, "Error parsing PDF file")
                    /\ pc' = "done"
                    /\ UNCHANGED transactions
       IN  Returned(ParseFile(upload.content))
    /\ UNCHANGED <<upload, file_path, disk, raw_records, categorized, analysis>>
    /\ UNCHANGED <<lib_vars, llm_output>>

\* processor.cleanup_file(file_path), with os.remove succeeding
CleanupFile ==
    /\ pc = "cleanup"
    /\ disk' = disk \ {file_path}
    /\ pc' = "categorize"
    /\ UNCHANGED <<upload, file_path, raw_records, transactions, categorized,
                   analysis, response>>
    /\ UNCHANGED <<lib_vars, llm_output>>

\* categorized_transactions = categorizer.categorize_batch(transactions)
CategorizeUploaded ==
    /\ pc = "categorize"
    /\ LET Returned(r) ==
               IF r.ok
               THEN categorized' = r.v /\ response' = response /\ pc' = "analyze"
               ELSE /\ response' = ErrorResponse(500, "AttributeError")
                    /\ pc' = "done"
                    /\ UNCHANGED categorized
       IN  Returned(CategorizeBatch(transactions))
    /\ UNCHANGED <<upload, file_path, disk, raw_records, transactions, analysis>>
    /\ UNCHANGED <<lib_vars, llm_output>>

\* analysis = analyzer.analyze_transactions(categorized_transactions)
AnalyzeUploaded ==
    /\ pc = "analyze"
    /\ IF AnalysisRaises(categorized)
       THEN /\ response' = ErrorResponse(500, "KeyError")
            /\ pc' = "done"
            /\ UNCHANGED analysis
       ELSE /\ \E now \in Clock : analysis' = AnalyzeTransactions(categorized, now)
            /\ pc' = "respond"
            /\ UNCHANGED response
    /\ UNCHANGED <<upload, file_path, disk, raw_records, transactions, categorized>>
    /\ UNCHANGED <<lib_vars, llm_output>>

\* return jsonify({... 'count': len(transactions)})
Respond ==
    /\ pc = "respond"
    /\ response' = SuccessResponse(transactions, categorized, analysis)
    /\ pc' = "done"
    /\ UNCHANGED <<upload, file_path, disk, raw_records, transactions,
                   categorized, analysis>>
    /\ UNCHANGED <<lib_vars, llm_output>>

\* parse_transactions_from_text returned a list of extracted records
RecordsExtracted ==
    /\ pc = "idle"
    /\ \E records \in SeqsUpTo(RecordPool, MaxRecords) : raw_records' = records
    /\ pc' = "pdf_convert"
    /\ UNCHANGED <<upload, file_path, disk, transactions, categorized, analysis,
                   response>>
    /\ UNCHANGED <<lib_vars, llm_output>>

\* step 2 of parse_pdf_file: parse_transactions_from_text gets the response
\* of the LLM and returns what _parse_llm_response makes of it, or raises;
\* len(raw_transactions) raises TypeError for a returned number
LlmResponded ==
    /\ pc = "idle"
    /\ \E llm \in ResponsePool :
          /\ llm_output' = llm
          /\ LET Returned(r) ==
                     IF ~r.ok
                     THEN /\ response' = ErrorResponse(0, "Error parsing transactions with LLM")
                          /\ pc' = "llm_failed"
                          /\ UNCHANGED raw_records
                     ELSE IF r.v.kind # "list"
                     THEN /\ response' = ErrorResponse(0, "TypeError")
                          /\ pc' = "llm_unusable"
                          /\ UNCHANGED raw_records
                     ELSE /\ raw_records' = r.v.items
                          /\ pc' = "pdf_convert"
                          /\ UNCHANGED response
             IN  Returned(ParseLlmResponse(llm))
    /\ UNCHANGED <<upload, file_path, disk, transactions, categorized, analysis>>
    /\ UNCHANGED lib_vars

\* steps 3 and 4 of parse_pdf_file: convert, raise when nothing is left
ParsePdfRecords ==
    /\ pc = "pdf_convert"
    /\ \E now \in Clock :
          LET Returned(r) ==
                  IF r.ok
                  THEN /\ transactions' = r.v
                       /\ response' = response
                       /\ pc' = "pdf_parsed"
                  ELSE /\ response' = ErrorResponse(0, "No valid transactions found in PDF")
                       /\ pc' = "pdf_failed"
                       /\ UNCHANGED transactions
          IN  Returned(ParsePdfFile(raw_records, now))
    /\ UNCHANGED <<upload, file_path, disk, raw_records, categorized, analysis>>
    /\ UNCHANGED <<lib_vars, llm_output>>

Next ==
    \/ UploadReceived
    \/ CheckRequest
    \/ SaveFile
    \/ ParseUploaded
    \/ CleanupFile
    \/ CategorizeUploaded
    \/ AnalyzeUploaded
    \/ Respond
    \/ RecordsExtracted
    \/ LlmResponded
    \/ ParsePdfRecords

Spec == Init /\ [][Next]_vars

-----------------------------------------------------------------------------
(* The categorizer and the analyzer called directly on a list of dicts, as  *)
(* test_pdf_parser.py and any other importer of the services call them.     *)

request_vars == <<upload, file_path, disk, raw_records, transactions, categorized,
                  response, llm_output>>

LibInit ==
    /\ pc = "lib_idle"
    /\ upload = [present |-> FALSE, filename |-> "", content |-> NoContent]
    /\ file_path = ""
    /\ disk = {}
    /\ raw_records = <<>>
    /\ transactions = <<>>
    /\ categorized = <<>>
    /\ analysis = EmptyAnalysis
    /\ response = EmptyResponse
    /\ heap = <<>>
    /\ given = <<>>
    /\ labelled_once = <<>>
    /\ labelled_twice = <<>>
    /\ reanalysis = EmptyAnalysis
    /\ called_at = <<>>
    /\ llm_output = ""

\* the caller builds a list of dicts: the heap holds the dicts, the list holds
\* references to them
BatchGiven ==
    /\ pc = "lib_idle"
    /\ \E dicts \in Batches :
          /\ heap' = dicts
          /\ given' = [i \in 1..Len(dicts) |-> i]
    /\ pc' = "lib_given"
    /\ UNCHANGED <<labelled_once, labelled_twice, analysis, reanalysis, called_at>>
    /\ UNCHANGED request_vars

\* labelled = categorizer.categorize_batch(given)
CategorizeBatchCalled ==
    /\ pc = "lib_given"
    /\ LET Returned(r) ==
               IF r.heap.ok
               THEN heap' = r.heap.v /\ labelled_once' = r.result /\ pc' = "lib_labelled"
               ELSE pc' = "lib_raised" /\ UNCHANGED <<heap, labelled_once>>
       IN  Returned(CategorizeBatchRefs(heap, given))
    /\ UNCHANGED <<given, labelled_twice, analysis, reanalysis, called_at>>
    /\ UNCHANGED request_vars

\* categorizer.categorize_batch(labelled): the output of the first call is
\* categorized again
CategorizeBatchAgain ==
    /\ pc = "lib_labelled"
    /\ LET Returned(r) ==
               IF r.heap.ok
               THEN heap' = r.heap.v /\ labelled_twice' = r.result /\ pc' = "lib_relabelled"
               ELSE pc' = "lib_raised" /\ UNCHANGED <<heap, labelled_twice>>
       IN  Returned(CategorizeBatchRefs(heap, labelled_once))
    /\ UNCHANGED <<given, labelled_once, analysis, reanalysis, called_at>>
    /\ UNCHANGED request_vars

\* analysis = analyzer.analyze_transactions(labelled), called at some time
AnalyzeCalled ==
    /\ pc = "lib_labelled"
    /\ IF AnalysisRaises(Deref(heap, labelled_once))
       THEN pc' = "lib_raised" /\ UNCHANGED <<analysis, called_at>>
       ELSE \E now \in Clock :
               /\ analysis' = AnalyzeTransactions(Deref(heap, labelled_once), now)
               /\ called_at' = <<now>>
               /\ pc' = "lib_analyzed"
    /\ UNCHANGED <<heap, given, labelled_once, labelled_twice, reanalysis>>
    /\ UNCHANGED request_vars

\* analyzer.analyze_transactions(labelled) called once more on the same list,
\* at the same or another time
AnalyzeAgain ==
    /\ pc = "lib_analyzed"
    /\ \E now \in Clock :
          /\ reanalysis' = AnalyzeTransactions(Deref(heap, labelled_once), now)
          /\ called_at' = Append(called_at, now)
    /\ pc' = "lib_done"
    /\ UNCHANGED <<heap, given, labelled_once, labelled_twice, analysis>>
    /\ UNCHANGED request_vars

LibNext ==
    \/ BatchGiven
    \/ CategorizeBatchCalled
    \/ CategorizeBatchAgain
    \/ AnalyzeCalled
    \/ AnalyzeAgain

LibSpec == LibInit /\ [][LibNext]_vars

-----------------------------------------------------------------------------
(* Properties *)

\* the request flow, in which transactions holds what DataParser.parse_file
\* returned (or still the empty list)
FromTables ==
    pc \notin {"pdf_convert", "pdf_parsed", "pdf_failed", "llm_failed", "llm_unusable"}

\* the record flow, after convert_to_standard_format produced its list
FromRecords == pc = "pdf_parsed"

\* C1: every record DataParser emits has a type that agrees with the sign of
\* its stored amount: Debit implies amount < 0, Credit implies amount > 0.
C1_TypeAgreesWithSign ==
    FromTables =>
        \A i \in 1..Len(transactions) :
            /\ transactions[i].type = "Debit" => transactions[i].amount < 0
            /\ transactions[i].type = "Credit" => transactions[i].amount > 0

RECURSIVE MagnitudeOfType(_, _, _)
MagnitudeOfType(batch, type, i) ==
    IF i > Len(batch) THEN 0
    ELSE (IF batch[i].type = type THEN Abs(batch[i].amount) ELSE 0)
             + MagnitudeOfType(batch, type, i + 1)

\* C2: in the upload pipeline total_expenses is the sum of the magnitudes of
\* the Debit records and total_income the sum of the magnitudes of the Credit
\* records.
C2_TotalsFollowType ==
    pc \in {"respond", "done"} /\ "summary" \in DOMAIN analysis =>
        /\ analysis.summary.total_expenses = MagnitudeOfType(categorized, "Debit", 1)
        /\ analysis.summary.total_income = MagnitudeOfType(categorized, "Credit", 1)

\* the kind a file name announces
KindOfName(filename) ==
    IF ~IsSubstr(".", filename) THEN "unknown"
    ELSE IF Lower(Last(Split(filename, "."))) = "csv" THEN "csv"
    ELSE IF Lower(Last(Split(filename, "."))) \in {"xlsx", "xls"} THEN "xlsx"
    ELSE IF Lower(Last(Split(filename, "."))) = "pdf" THEN "pdf"
    ELSE "unknown"

\* a readable file of a known kind: the bytes are of the kind the name announces
ReadableKnownKind(u) ==
    /\ u.present
    /\ u.content.kind \in {"csv", "xlsx", "pdf"}
    /\ KindOfName(u.filename) = u.content.kind

\* the file holds a table with at least one row that parses to a transaction
HoldsValidTransaction(u) == DocumentTransactions(u.content.pages, 1) # <<>>

\* C3: a readable upload of a known kind (csv, xlsx/xls, pdf) holding at least
\* one valid transaction ends in the success payload, whose count is the
\* number of transactions returned.
C3_KnownKindsSucceed ==
    pc = "done" /\ ReadableKnownKind(upload) /\ HoldsValidTransaction(upload) =>
        /\ response.success
        /\ response.count = Len(response.transactions)

\* C4: in every terminal state of a request that saved a file, the saved file
\* no longer exists.
C4_SavedFileRemoved ==
    pc = "done" /\ file_path # "" => file_path \notin disk

\* a parsed value that is a number other than zero
Nonzero(r) == r.ok /\ r.v # 0

ExactlyOne(a, b) == (a /\ ~b) \/ (b /\ ~a)

\* the record came from a table without a single amount column
SplitDerived(rec) ==
    "amount" \notin DOMAIN BuildMapping(rec.original_data.cols)

\* the debit or credit value of the row a record came from
SourceValue(rec, field) ==
    ParseAmountOptional(
        RowCell(rec.original_data.cols, rec.original_data.cells,
                BuildMapping(rec.original_data.cols)[field]).v)

\* C5: a record derived from separate debit and credit values is produced only
\* if exactly one of the two is nonzero, in DataParser and in PDFParser.
C5_ExactlyOneSide ==
    /\ FromTables =>
          \A i \in 1..Len(transactions) :
              SplitDerived(transactions[i]) =>
                  ExactlyOne(Nonzero(SourceValue(transactions[i], "debit")),
                             Nonzero(SourceValue(transactions[i], "credit")))
    /\ FromRecords =>
          \A i \in 1..Len(transactions) :
              ExactlyOne(
                  Nonzero(ToFloat(Get(transactions[i].original_data, "debit", Num(0)))),
                  Nonzero(ToFloat(Get(transactions[i].original_data, "credit", Num(0)))))

\* C6: no record in the output of DataParser.parse_file or of
\* PDFParser.convert_to_standard_format has amount 0.
C6_NoZeroAmount ==
    \A i \in 1..Len(transactions) : transactions[i].amount # 0

\* the tables of a document, in page and table order
RECURSIVE TablesOf(_, _)
TablesOf(pages, i) ==
    IF i > Len(pages) THEN <<>> ELSE pages[i] \o TablesOf(pages, i + 1)

\* some header of the table, cleaned, contains a pattern of the field
Resolves(table, field) ==
    \E i \in 1..Len(table[1]) :
        MatchesField(CleanHeader(table[1][i]), FieldPatterns(field))

\* a table with a header row and a data row whose headers resolve date and
\* description and either a single amount column or both debit and credit
UsableTable(table) ==
    /\ Len(table) >= 2
    /\ Resolves(table, "date")
    /\ Resolves(table, "description")
    /\ \/ Resolves(table, "amount")
       \/ Resolves(table, "debit") /\ Resolves(table, "credit")

\* the records of the rows of a usable table, in row order
RecordsOfUsable(table) ==
    IF UsableTable(table)
    THEN ParseRowsFrom(CleanColumns(table[1]), Tail(table),
                       BuildMapping(CleanColumns(table[1])), 1)
    ELSE <<>>

RECURSIVE RecordsOfUsableFrom(_, _)
RecordsOfUsableFrom(tables, i) ==
    IF i > Len(tables) THEN <<>>
    ELSE RecordsOfUsable(tables[i]) \o RecordsOfUsableFrom(tables, i + 1)

\* parse_file has just returned its list
ParseReturned == pc = "cleanup"

\* parse_file raised on a document that opened
ParseRaised ==
    /\ pc = "done"
    /\ response.error = "Error parsing PDF file"
    /\ upload.content.kind = "pdf"

\* C7: the document yields exactly the records of its usable tables (header and
\* data row, date and description resolved, a single amount column or both
\* debit and credit), in page, table and row order; every other table is
\* skipped without raising, so parse_file raises only when no record is left.
C7_UsableTablesOnly ==
    /\ ParseReturned =>
          transactions = RecordsOfUsableFrom(TablesOf(upload.content.pages, 1), 1)
    /\ ParseRaised =>
          RecordsOfUsableFrom(TablesOf(upload.content.pages, 1), 1) = <<>>

\* parse_file returned the records of a document holding a usable table and a
\* table with a data row that is no transaction table
C7_Witness ==
    /\ ParseReturned
    /\ transactions # <<>>
    /\ \E i, j \in 1..Len(TablesOf(upload.content.pages, 1)) :
          /\ UsableTable(TablesOf(upload.content.pages, 1)[i])
          /\ ~UsableTable(TablesOf(upload.content.pages, 1)[j])
          /\ Len(TablesOf(upload.content.pages, 1)[j]) >= 2

\* the rows of a table as the frame hands them to the row parser
RowsOf(table) ==
    [i \in 1..(Len(table) - 1) |-> RowDict(CleanColumns(table[1]), table[i + 1])]

\* the rows of the tables whose columns _identify_columns accepts
RECURSIVE RowsOfMapped(_, _)
RowsOfMapped(tables, i) ==
    IF i > Len(tables) THEN <<>>
    ELSE (IF Len(tables[i]) >= 2 /\ DOMAIN IdentifyColumns(tables[i]) # {}
          THEN RowsOf(tables[i]) ELSE <<>>)
             \o RowsOfMapped(tables, i + 1)

\* the row, taken alone, parses to a transaction
RowIsValid(row) ==
    ParseRowWithMapping(row.cols, row.cells, BuildMapping(row.cols)).ok

\* the extracted record, taken alone, converts to a transaction
RecordIsValid(trans) == \E now \in Clock : StandardizeRecord(trans, now).ok

\* the rows or records the output came from, in output order
Origins(batch) == [i \in 1..Len(batch) |-> batch[i].original_data]

\* the cell of the mapped field in the row a record came from
SourceCell(rec, field) ==
    RowCell(rec.original_data.cols, rec.original_data.cells,
            BuildMapping(rec.original_data.cols)[field]).v

\* C8: a bad row or record never aborts the stage: the output of
\* _parse_dataframe and of convert_to_standard_format comes from exactly the
\* rows or records that are valid taken alone, each once, in input order, and
\* no emitted row has an empty date, an empty description or a blank amount.
C8_BadRowsSkippedAlone ==
    /\ ParseReturned =>
          /\ Origins(transactions)
                 = SelectSeq(RowsOfMapped(TablesOf(upload.content.pages, 1), 1),
                             RowIsValid)
          /\ \A i \in 1..Len(transactions) :
                /\ ~IsBlank(SourceCell(transactions[i], "date"))
                /\ ~IsBlank(SourceCell(transactions[i], "description"))
                /\ ~SplitDerived(transactions[i]) =>
                       ~IsBlank(SourceCell(transactions[i], "amount"))
    /\ ParseRaised =>
          SelectSeq(RowsOfMapped(TablesOf(upload.content.pages, 1), 1), RowIsValid)
              = <<>>
    /\ FromRecords =>
          /\ Origins(transactions) = SelectSeq(raw_records, RecordIsValid)
          /\ \A i \in 1..Len(transactions) : transactions[i].original_data.obj
    /\ pc = "pdf_failed" => SelectSeq(raw_records, RecordIsValid) = <<>>

\* a stage emitted a row that follows a bad one: a table whose second row is
\* bad and whose first and third rows were both emitted, or an extraction whose
\* first element is bad and whose second was emitted
C8_Witness ==
    \/ /\ ParseReturned
       /\ \E t \in 1..Len(TablesOf(upload.content.pages, 1)) :
             /\ Len(RowsOf(TablesOf(upload.content.pages, 1)[t])) = 3
             /\ ~RowIsValid(RowsOf(TablesOf(upload.content.pages, 1)[t])[2])
             /\ Origins(transactions)
                    = <<RowsOf(TablesOf(upload.content.pages, 1)[t])[1],
                        RowsOf(TablesOf(upload.content.pages, 1)[t])[3]>>
    \/ /\ FromRecords
       /\ Len(raw_records) = 2
       /\ ~raw_records[1].obj
       /\ Origins(transactions) = <<raw_records[2]>>

\* C9: the parsing stage fails when no record survives, and the analysis is
\* computed only from a non-empty list that parse_file returned and
\* categorize_batch labelled in full.
C9_NoAnalysisOfEmptySet ==
    /\ pc \in {"cleanup", "categorize", "analyze", "respond"} => transactions # <<>>
    /\ pc \in {"analyze", "respond"} =>
          /\ Len(categorized) = Len(transactions)
          /\ \A i \in 1..Len(categorized) :
                /\ categorized[i].category # "Uncategorized"
                /\ categorized[i].original_data = transactions[i].original_data
    /\ analysis # EmptyAnalysis =>
          /\ pc \in {"respond", "done"}
          /\ analysis.summary.total_transactions = Len(transactions)
          /\ Len(transactions) > 0
    /\ response.success => analysis # EmptyAnalysis /\ response.count > 0
    /\ ParseReturned \/ response.success =>
          DocumentTransactions(upload.content.pages, 1) # <<>>
    /\ ParseRaised => response.status = 500 /\ analysis = EmptyAnalysis
    /\ FromRecords => transactions # <<>>
    /\ pc \in {"pdf_parsed", "pdf_failed"} =>
          \A now \in Clock :
              ConvertToStandardFormat(raw_records, now) = <<>> <=> pc = "pdf_failed"

\* a request whose document holds a transaction table with no valid row ended
\* in the error response without an analysis
C9_Witness ==
    /\ ParseRaised
    /\ \E t \in 1..Len(TablesOf(upload.content.pages, 1)) :
          UsableTable(TablesOf(upload.content.pages, 1)[t])
    /\ DocumentTransactions(upload.content.pages, 1) = <<>>
    /\ response.status = 500
    /\ analysis = EmptyAnalysis

\* the keys of category_patterns other than 'Income'
ExpenseCategories ==
    {"Food & Dining", "Groceries", "Transportation", "Entertainment", "Shopping",
     "Utilities", "Healthcare", "Banking"}

\* the list categorize_batch returned
Labelled == IF pc \in {"analyze", "respond"} \/ response.success THEN categorized ELSE <<>>

\* C10: every record categorize_batch returns carries one label: a Credit
\* record 'Income' when an Income pattern matches its description and 'Other
\* Income' otherwise, a Debit record a non-Income category or 'Other'; none is
\* left 'Uncategorized'.
C10_CategorizationTotal ==
    /\ pc \in {"analyze", "respond"} \/ response.success =>
          Len(categorized) = Len(transactions)
    /\ \A i \in 1..Len(Labelled) :
          /\ Labelled[i].category # "Uncategorized"
          /\ Labelled[i].type = "Credit" =>
                /\ Labelled[i].category \in {"Income", "Other Income"}
                /\ Labelled[i].category = "Income" <=>
                       MatchesAny(IncomePatterns, Lower(Labelled[i].description.s))
          /\ Labelled[i].type = "Debit" =>
                Labelled[i].category \in ExpenseCategories \cup {"Other"}

\* categorize_batch labelled a Debit record whose description matches an
\* Income pattern and a Credit record whose description matches none
C10_Witness ==
    /\ pc = "analyze"
    /\ \E i, j \in 1..Len(categorized) :
          /\ categorized[i].type = "Debit"
          /\ MatchesAny(IncomePatterns, Lower(categorized[i].description.s))
          /\ categorized[i].category = "Other"
          /\ categorized[j].type = "Credit"
          /\ categorized[j].category = "Other Income"

-----------------------------------------------------------------------------
(* Properties of the categorizer and the analyzer called directly *)

\* the dicts of the list the first categorize_batch call returned
LabelledOnce == Deref(heap, labelled_once)

\* the expense categories in the order of their declaration
DeclaredOrder == <<"Food & Dining", "Groceries", "Transportation", "Entertainment",
                   "Shopping", "Utilities", "Healthcare", "Banking">>

PatternsOf(category) ==
    CategoryPatterns[CHOOSE k \in 1..Len(CategoryPatterns) :
                         CategoryPatterns[k].category = category].patterns

\* the positions in DeclaredOrder of the categories a dict's description matches
MatchedPositions(rec) ==
    {k \in 1..Len(DeclaredOrder) :
        \E j \in 1..Len(PatternsOf(DeclaredOrder[k])) :
            IsSubstr(PatternsOf(DeclaredOrder[k])[j], Lower(rec.description.s))}

\* C11: a Debit record whose description matches patterns of two or more
\* expense categories is labelled with the category declared earliest among
\* them, whatever the length of the patterns that matched.
C11_FirstMatchWins ==
    pc = "lib_labelled" =>
        \A i \in 1..Len(LabelledOnce) :
            (/\ Field(LabelledOnce[i], "type", "") = "Debit"
             /\ "description" \in DOMAIN LabelledOnce[i]
             /\ Cardinality(MatchedPositions(LabelledOnce[i])) >= 2)
            => /\ LabelledOnce[i].category \in
                     {DeclaredOrder[k] : k \in MatchedPositions(LabelledOnce[i])}
               /\ \A k \in MatchedPositions(LabelledOnce[i]) :
                     \E j \in 1..k : DeclaredOrder[j] = LabelledOnce[i].category

\* 'amazon prime' is labelled Entertainment and 'gas bill' Transportation in
\* one batch
C11_Witness ==
    /\ pc = "lib_labelled"
    /\ \E i \in 1..Len(LabelledOnce) :
          /\ Field(LabelledOnce[i], "description", Null) = Str("AMAZON PRIME membership")
          /\ Field(LabelledOnce[i], "type", "") = "Debit"
          /\ LabelledOnce[i].category = "Entertainment"
    /\ \E i \in 1..Len(LabelledOnce) :
          /\ Field(LabelledOnce[i], "description", Null) = Str("Gas bill")
          /\ Field(LabelledOnce[i], "type", "") = "Debit"
          /\ LabelledOnce[i].category = "Transportation"

\* the dicts of the list the caller built and of the list the second
\* categorize_batch call returned
Given == Deref(heap, given)

LabelledTwice == Deref(heap, labelled_twice)

\* C12: categorizing the output of categorize_batch again gives every record
\* the label it had, and two records of a batch that differ only in the
\* category stored on them receive the same label.
C12_Idempotent ==
    /\ pc = "lib_relabelled" =>
          /\ Len(LabelledTwice) = Len(LabelledOnce)
          /\ \A i \in 1..Len(LabelledOnce) :
                LabelledTwice[i].category = LabelledOnce[i].category
    /\ pc \in {"lib_labelled", "lib_relabelled"} =>
          \A i, j \in 1..Len(LabelledOnce) :
              (/\ Field(Given[i], "description", Null) = Field(Given[j], "description", Null)
               /\ Field(Given[i], "type", Null) = Field(Given[j], "type", Null))
              => LabelledOnce[i].category = LabelledOnce[j].category

\* a batch categorized twice that holds 'Gas bill' once unlabelled and once
\* labelled 'Utilities'
C12_Witness ==
    /\ pc = "lib_relabelled"
    /\ Len(Given) = 2
    /\ Field(Given[1], "description", Null) = Str("Gas bill")
    /\ Field(Given[1], "category", "") = "Uncategorized"
    /\ Field(Given[2], "description", Null) = Str("Gas bill")
    /\ Field(Given[2], "category", "") = "Utilities"
    /\ LabelledTwice[1].category = "Transportation"
    /\ LabelledTwice[2].category = "Transportation"

\* a call of categorize_batch on the list args that returned the list result
Untouched(args, result) ==
    /\ Deref(heap', args) = Deref(heap, args)
    /\ Len(result) = Len(args)
    /\ \A i \in 1..Len(result) :
          /\ result[i] \notin DOMAIN heap
          /\ \A j \in 1..Len(result) : i # j => result[i] # result[j]
          /\ \A k \in DOMAIN heap[args[i]] \ {"category"} :
                heap'[result[i]][k] = heap[args[i]][k]

\* C13: a returning categorize_batch call leaves the list it was given and
\* every dict of that list as they were, and returns a list of the same
\* length whose dicts are new objects, the i-th being a copy of the i-th input
\* dict with the label set.
C13_InputNotMutated ==
    [][/\ (pc = "lib_given" /\ pc' = "lib_labelled") =>
             (given' = given /\ Untouched(given, labelled_once'))
       /\ (pc = "lib_labelled" /\ pc' = "lib_relabelled") =>
             (labelled_once' = labelled_once /\ Untouched(labelled_once, labelled_twice'))]_vars

\* a dict stored as 'Shopping' is still 'Shopping' after the call and its copy
\* in the returned list is labelled 'Groceries'
C13_Witness ==
    /\ pc = "lib_labelled"
    /\ Len(given) = 2
    /\ Field(Given[1], "category", "") = "Shopping"
    /\ LabelledOnce[1].category = "Groceries"
    /\ labelled_once[1] # given[1]
    /\ "category" \notin DOMAIN Given[2]
    /\ "category" \in DOMAIN LabelledOnce[2]

\* C14: categorize_batch returns for every list it is given, with a label on
\* every record, whatever the description or the type of a record is.
C14_BatchNeverRaises ==
    pc \in {"lib_labelled", "lib_relabelled", "lib_raised"} =>
        /\ Len(labelled_once) = Len(given)
        /\ \A i \in 1..Len(labelled_once) : "category" \in DOMAIN LabelledOnce[i]

\* the keys of a complete analysis
EightKeys == {"summary", "by_category", "by_month", "spending_trends", "top_expenses",
              "income_vs_expenses", "spending_patterns", "ai_insights"}

\* the first categorize_batch call returned and analyze_transactions raised
AnalysisRaised == pc = "lib_raised" /\ Len(labelled_once) = Len(given)

\* C15: analyze_transactions returns the empty structure for an empty list
\* and a dict with all eight keys for a non-empty list; it raises for no list
\* of records that carry the fields of a transaction.
C15_EmptyOrComplete ==
    /\ pc \in {"lib_analyzed", "lib_done"} =>
          IF LabelledOnce = <<>> THEN DOMAIN analysis = {} ELSE DOMAIN analysis = EightKeys
    /\ pc = "lib_done" =>
          IF LabelledOnce = <<>> THEN DOMAIN reanalysis = {}
          ELSE DOMAIN reanalysis = EightKeys
    /\ AnalysisRaised =>
          /\ LabelledOnce # <<>>
          /\ \A i \in 1..Len(LabelledOnce) : "description" \notin DOMAIN LabelledOnce[i]

\* a list of two records was analysed and the result holds insights
C15_Witness ==
    /\ pc = "lib_analyzed"
    /\ Len(LabelledOnce) = 2
    /\ DOMAIN analysis = EightKeys
    /\ analysis.ai_insights # <<>>
    /\ analysis.spending_trends = EmptyAnalysis

\* the positions of the outflows in the analysed list
Outflows == {i \in 1..Len(LabelledOnce) : LabelledOnce[i].amount < 0}

\* the entry of top_expenses reports the record at position p of the list
Reports(entry, p) ==
    /\ p \in Outflows
    /\ entry.amount = Abs(LabelledOnce[p].amount)
    /\ entry.date = LabelledOnce[p].date
    /\ entry.category = LabelledOnce[p].category

\* C16: top_expenses holds the min(10, number of outflows) outflows of largest
\* magnitude, as absolute values, the largest first and equal ones in the
\* order of the input; no outflow left out is larger than one included.
C16_TopExpensesLargestFirst ==
    (pc = "lib_analyzed" /\ LabelledOnce # <<>>) =>
        /\ Len(analysis.top_expenses) = Min({TopLimit, Cardinality(Outflows)})
        /\ \A i \in 1..Len(analysis.top_expenses) :
              /\ analysis.top_expenses[i].amount > 0
              /\ \E p \in Outflows : Reports(analysis.top_expenses[i], p)
              /\ Cardinality({p \in Outflows :
                                 Abs(LabelledOnce[p].amount)
                                     > analysis.top_expenses[i].amount}) < i
        /\ \A i \in 1..(Len(analysis.top_expenses) - 1) :
              /\ analysis.top_expenses[i].amount >= analysis.top_expenses[i + 1].amount
              /\ analysis.top_expenses[i].amount = analysis.top_expenses[i + 1].amount
                    => \E p, q \in Outflows :
                          /\ p < q
                          /\ Reports(analysis.top_expenses[i], p)
                          /\ Reports(analysis.top_expenses[i + 1], q)

\* the categories of by_category whose dict has the given type
EntriesOfType(by_category, type) ==
    {c \in DOMAIN by_category : by_category[c].type = type}

RECURSIVE SumOfShares(_, _)
SumOfShares(by_category, cats) ==
    IF cats = {} THEN 0
    ELSE by_category[CHOOSE c \in cats : TRUE].percentage_of_total
             + SumOfShares(by_category, cats \ {CHOOSE c \in cats : TRUE})

\* C17: when the input holds an expense, the shares of the expense entries of
\* by_category (tenths of a percent here) add up to 100 percent, up to half a
\* tenth of rounding per entry, and every income entry has share 0; also when
\* a category holds records of both signs.
C17_SharesSumTo100 ==
    (pc = "lib_analyzed" /\ Outflows # {}) =>
        /\ Abs(SumOfShares(analysis.by_category,
                           EntriesOfType(analysis.by_category, "expense")) - 1000)
              <= Cardinality(EntriesOfType(analysis.by_category, "expense"))
        /\ \A c \in EntriesOfType(analysis.by_category, "income") :
              analysis.by_category[c].percentage_of_total = 0

\* C18: two calls of analyze_transactions on the same list return the same
\* analysis, insights included, whatever the times of the two calls.
C18_SameInputSameAnalysis ==
    pc = "lib_done" => reanalysis = analysis

-----------------------------------------------------------------------------
(* Properties of the records of the two parsers *)

\* C19: every record DataParser.parse_file or PDFParser.parse_pdf_file returns
\* has a description that is text and is not empty after trimming.
C19_DescriptionNeverEmpty ==
    (ParseReturned \/ FromRecords) =>
        \A i \in 1..Len(transactions) :
            /\ transactions[i].description.t = "str"
            /\ Strip(transactions[i].description.s) # ""

\* the text strptime is given for the date cell of the row a record came from
SourceDateText(rec) == Strip(SourceCell(rec, "date").s)

\* the formats of the list that parse a text
Parsing(text) == {k \in 1..Len(DateFormats) : Strptime(text, DateFormats[k]).ok}

\* the date text of an extracted record parses as ISO or as US slash format
PdfDateParses(trans) ==
    /\ "date" \in DOMAIN trans.f
    /\ trans.f.date.t = "str"
    /\ \/ Strptime(trans.f.date.s, "%Y-%m-%d").ok
       \/ Strptime(trans.f.date.s, "%m/%d/%Y").ok

ClockDates == {IsoFormat(now) : now \in Clock}

\* C20: a record of DataParser carries the date its source text gives under
\* the earliest format of the list that parses it, so a row whose date no
\* format parses yields no record and no record carries the date of the
\* clock; a valid extracted record of PDFParser whose date parses neither as
\* ISO nor as US slash format is kept and carries the date of the clock.
C20_DatePolicies ==
    /\ ParseReturned =>
          \A i \in 1..Len(transactions) :
              /\ Parsing(SourceDateText(transactions[i])) # {}
              /\ \E k \in Parsing(SourceDateText(transactions[i])) :
                    /\ \A j \in Parsing(SourceDateText(transactions[i])) : k <= j
                    /\ transactions[i].date
                          = IsoFormat(Strptime(SourceDateText(transactions[i]),
                                               DateFormats[k]).v)
              /\ transactions[i].date \notin ClockDates
    /\ pc \in {"pdf_parsed", "pdf_failed"} =>
          /\ \A i \in 1..Len(raw_records) :
                (RecordIsValid(raw_records[i]) /\ ~PdfDateParses(raw_records[i])) =>
                    \E j \in 1..Len(transactions) :
                        /\ transactions[j].original_data = raw_records[i]
                        /\ transactions[j].date \in ClockDates
          /\ \A j \in 1..Len(transactions) :
                transactions[j].date \in ClockDates
                    <=> ~PdfDateParses(transactions[j].original_data)

\* DataParser returned a record for '01/02/2024', which two formats parse, and
\* none for the row dated '31/02/2024' beside it
C20_Witness ==
    /\ ParseReturned
    /\ Len(transactions) = 1
    /\ SourceDateText(transactions[1]) = "01/02/2024"
    /\ transactions[1].date = "2024-01-02T00:00:00"
    /\ \E p \in 1..Len(upload.content.pages) :
          \E t \in 1..Len(upload.content.pages[p]) :
              \E r \in 2..Len(upload.content.pages[p][t]) :
                  upload.content.pages[p][t][r][1] = Str("31/02/2024")

\* the response holds a fenced JSON block: an opening fence tagged json and a
\* closing fence after it
HasFencedBlock(llm) ==
    \E i \in 0..(Len(llm) - 7) :
        /\ SubSeq(llm, i + 1, i + 7) = Fence \o "json"
        /\ \E j \in (i + 7)..(Len(llm) - 3) : SubSeq(llm, j + 1, j + 3) = Fence

\* the text the response is to be parsed from: the content of its first
\* fenced JSON block, or all of it
ContentOf(llm) ==
    IF HasFencedBlock(llm)
    THEN SubSeq(llm, Find(llm, Fence \o "json", 0) + 8,
                Find(llm, Fence, Find(llm, Fence \o "json", 0) + 7))
    ELSE llm

\* the text is JSON for a bare list or for an object with a transactions key
AcceptedShape(text) ==
    /\ text \in DOMAIN JsonTexts
    /\ \/ JsonTexts[text].kind = "list"
       \/ /\ JsonTexts[text].kind = "dict"
          /\ "transactions" \in DOMAIN JsonTexts[text].fields

\* the value the accepted text holds as its records
RecordsIn(text) ==
    IF JsonTexts[text].kind = "list" THEN JsonTexts[text]
    ELSE JsonTexts[text].fields.transactions

\* C21: _parse_llm_response returns records exactly when the content of the
\* fenced JSON block of the response, or the whole response when it holds no
\* such block, is JSON for a bare list or for an object with a transactions
\* key, and then it returns the records of that value; everything else ends
\* the run with an error.
C21_TwoShapesOnly ==
    /\ (pc = "pdf_convert" /\ llm_output # "") =>
          /\ AcceptedShape(Strip(ContentOf(llm_output)))
          /\ RecordsIn(Strip(ContentOf(llm_output))) = JList(raw_records)
    /\ pc = "llm_unusable" =>
          /\ AcceptedShape(Strip(ContentOf(llm_output)))
          /\ RecordsIn(Strip(ContentOf(llm_output))).kind # "list"
    /\ pc = "llm_failed" => ~AcceptedShape(Strip(ContentOf(llm_output)))

StrictHeaders == {"date", "description", "amount", "type"}

\* the four headers are present, in any casing and with any surrounding
\* whitespace
HasStrictHeaders(table) ==
    \A h \in StrictHeaders :
        \E i \in 1..Len(table[1]) : CleanHeader(table[1][i]) = h

\* the cell of a data row under one of the four headers
StrictCell(table, r, h) ==
    table[r][Min({i \in 1..Len(table[1]) : CleanHeader(table[1][i]) = h})]

\* the data rows with a valid ISO date, a non-empty description, a numeric
\* amount and a type of Debit or Credit, by position in the table
StrictRows(table) ==
    {r \in 2..Len(table) :
        /\ \A h \in StrictHeaders : StrictCell(table, r, h).t = "str"
        /\ Strptime(StrictCell(table, r, "date").s, "%Y-%m-%d").ok
        /\ Strip(StrictCell(table, r, "description").s) # ""
        /\ ParseFloat(StrictCell(table, r, "amount").s).ok
        /\ StrictCell(table, r, "type").s \in {"Debit", "Credit"}}

\* the k-th smallest element of a set of numbers
RECURSIVE Nth(_, _)
Nth(S, k) == IF k = 1 THEN Min(S) ELSE Nth(S \ {Min(S)}, k - 1)

\* a saved upload of one page holding one table with a data row
OneTableSaved ==
    /\ upload.present
    /\ file_path # ""
    /\ upload.content.kind \in {"pdf", "csv", "xlsx"}
    /\ Len(upload.content.pages) = 1
    /\ Len(upload.content.pages[1]) = 1
    /\ Len(upload.content.pages[1][1]) >= 2

\* C22: a table with the four headers date, description, amount and type
\* yields exactly one record for each row with a valid ISO date, a non-empty
\* description, a numeric amount and a type of Debit or Credit, of the type
\* the row states, and none for any other row; a table missing one of the
\* four headers is rejected as a whole.
C22_StrictTables ==
    pc = "done" /\ OneTableSaved =>
        IF HasStrictHeaders(upload.content.pages[1][1])
        THEN StrictRows(upload.content.pages[1][1]) # {} =>
                /\ response.success
                /\ Len(response.transactions)
                      = Cardinality(StrictRows(upload.content.pages[1][1]))
                /\ \A k \in 1..Len(response.transactions) :
                      response.transactions[k].type
                          = StrictCell(upload.content.pages[1][1],
                                       Nth(StrictRows(upload.content.pages[1][1]), k),
                                       "type").s
        ELSE ~response.success

\* the labels of the analysed records
LabelsGiven == {LabelledOnce[i].category : i \in 1..Len(LabelledOnce)}

\* the outflows of the analysed list, and those of one category
OutflowRows == SelectSeq(LabelledOnce, IsOutflow)

OutflowsOf(c) == SelectSeq(LabelledOnce, LAMBDA t : t.amount < 0 /\ t.category = c)

\* ai_insights holds the category_dominance insight of the category
DominanceReported(c) ==
    \E i \in 1..Len(analysis.ai_insights) :
        /\ analysis.ai_insights[i].type = "category_dominance"
        /\ analysis.ai_insights[i].title = "High " \o c \o " Spending"

\* C23: a category_dominance insight is emitted for a category exactly when
\* its spending is strictly more than 40 percent of the total spending, so
\* for every share above 40.0 percent and for no category without spending.
C23_DominanceAbove40 ==
    (pc = "lib_analyzed" /\ LabelledOnce # <<>>) =>
        \A c \in LabelsGiven :
            DominanceReported(c) <=> Spent(OutflowsOf(c)) * 100 > 40 * Spent(OutflowRows)

\* the sum of the inflows and the magnitude of the sum of the outflows of the
\* analysed list
Income == SumAmounts(SelectSeq(LabelledOnce, IsInflow), 1)

Outgo == Spent(OutflowRows)

\* the severities of the financial_health insights of ai_insights, in order
HealthSeverities ==
    [i \in 1..Len(SelectSeq(analysis.ai_insights,
                            LAMBDA x : x.type = "financial_health")) |->
        SelectSeq(analysis.ai_insights, LAMBDA x : x.type = "financial_health")[i].severity]

\* C24: at most one financial_health insight is emitted and none unless the
\* income is positive; with r = (income - expenses) / income it is the high
\* alert when r < 0, the medium alert when 0 <= r < 10%, the positive alert
\* when r >= 20%, and nothing when 10% <= r < 20%.
C24_HealthBands ==
    (pc = "lib_analyzed" /\ LabelledOnce # <<>>) =>
        /\ Len(HealthSeverities) <= 1
        /\ Income <= 0 => HealthSeverities = <<>>
        /\ Income > 0 =>
              /\ Income - Outgo < 0 => HealthSeverities = <<"high">>
              /\ (Income - Outgo >= 0 /\ (Income - Outgo) * 10 < Income)
                    => HealthSeverities = <<"medium">>
              /\ ((Income - Outgo) * 10 >= Income /\ (Income - Outgo) * 5 < Income)
                    => HealthSeverities = <<>>
              /\ (Income - Outgo) * 5 >= Income => HealthSeverities = <<"positive">>

\* an income of 1000.00 with expenses of 900.00, a savings rate of exactly 10
\* percent, was analysed and no health insight was emitted
C24_Witness ==
    /\ pc = "lib_analyzed"
    /\ Income = 100000
    /\ Outgo = 90000
    /\ HealthSeverities = <<>>

\* the magnitude of the outflows of the analysed list dated on a Saturday or a
\* Sunday
WeekendOutgo ==
    Spent(SelectSeq(OutflowRows, LAMBDA t : DayName(DateOf(t)) \in {"Saturday", "Sunday"}))

\* ai_insights holds the weekend-pattern insight, of severity info
WeekendReported ==
    \E i \in 1..Len(analysis.ai_insights) :
        /\ analysis.ai_insights[i].type = "spending_pattern"
        /\ analysis.ai_insights[i].severity = "info"

\* C25: the weekend-pattern insight is emitted exactly when the expenses dated
\* on Saturday or Sunday exceed 40 percent of all expenses, also when all of
\* them fall on weekends.
C25_WeekendAbove40 ==
    (pc = "lib_analyzed" /\ LabelledOnce # <<>>) =>
        (WeekendReported <=> WeekendOutgo * 10 > 4 * Outgo)

\* the calendar months of the analysed records, the latest of them, and the
\* up to two months of the data before the latest
MonthsGiven == {MonthKey(DateOf(LabelledOnce[i])) : i \in 1..Len(LabelledOnce)}

LatestMonth == CHOOSE k \in MonthsGiven : \A j \in MonthsGiven : MonthIndex(j) <= MonthIndex(k)

PrecedingMonths ==
    {k \in MonthsGiven \ {LatestMonth} :
        Cardinality({j \in MonthsGiven : MonthIndex(j) > MonthIndex(k)}) <= 2}

\* the magnitude of the outflows dated in one of the months
OutgoIn(months) ==
    Spent(SelectSeq(OutflowRows, LAMBDA t : MonthKey(DateOf(t)) \in months))

\* the type and severity of the month-comparison insights of ai_insights
MonthChanges ==
    [i \in 1..Len(SelectSeq(analysis.ai_insights,
                            LAMBDA x : x.type \in {"spending_spike", "spending_decrease"})) |->
        <<SelectSeq(analysis.ai_insights,
                    LAMBDA x : x.type \in {"spending_spike", "spending_decrease"})[i].type,
          SelectSeq(analysis.ai_insights,
                    LAMBDA x : x.type \in {"spending_spike", "spending_decrease"})[i].severity>>]

\* latest month's expenses minus the mean of the preceding months, times the
\* number of preceding months
ChangeTimesCount ==
    OutgoIn({LatestMonth}) * Cardinality(PrecedingMonths) - OutgoIn(PrecedingMonths)

\* C26: with at least two calendar months of data the expenses of the latest
\* month are compared with the mean of the up to two months before it: an
\* increase above 25 percent gives one spending_spike insight, high above 50
\* percent and medium otherwise, a decrease of more than 25 percent gives one
\* positive spending_decrease insight, any other change gives neither, and
\* nothing is emitted when the preceding mean is 0 or the data holds one month.
C26_MonthComparison ==
    (pc = "lib_analyzed" /\ LabelledOnce # <<>>) =>
        IF Cardinality(MonthsGiven) < 2 \/ OutgoIn(PrecedingMonths) = 0
        THEN MonthChanges = <<>>
        ELSE /\ ChangeTimesCount * 100 > 50 * OutgoIn(PrecedingMonths)
                   => MonthChanges = << <<"spending_spike", "high">> >>
             /\ (/\ ChangeTimesCount * 100 > 25 * OutgoIn(PrecedingMonths)
                 /\ ChangeTimesCount * 100 <= 50 * OutgoIn(PrecedingMonths))
                   => MonthChanges = << <<"spending_spike", "medium">> >>
             /\ ChangeTimesCount * 100 < (0 - 25) * OutgoIn(PrecedingMonths)
                   => MonthChanges = << <<"spending_decrease", "positive">> >>
             /\ (/\ ChangeTimesCount * 100 <= 25 * OutgoIn(PrecedingMonths)
                 /\ ChangeTimesCount * 100 >= (0 - 25) * OutgoIn(PrecedingMonths))
                   => MonthChanges = <<>>

\* a statement of four months was analysed whose latest month is a spike over
\* the two months before it and a decrease against all three
C26_Witness ==
    /\ pc = "lib_analyzed"
    /\ Cardinality(MonthsGiven) = 4
    /\ OutgoIn({LatestMonth}) * 3 < OutgoIn(MonthsGiven \ {LatestMonth})
    /\ MonthChanges = << <<"spending_spike", "high">> >>

\* the magnitude of the outflows dated in the calendar month of the call
CurrentMonthOutgo == OutgoIn({MonthKey(called_at[1])})

\* the days of the month of the call that have elapsed, and its length
DaysElapsed == called_at[1].day - 1

DaysOfMonth == DaysInMonth(called_at[1].year, called_at[1].month)

BudgetRiskReported ==
    \E i \in 1..Len(analysis.ai_insights) :
        /\ analysis.ai_insights[i].type = "budget_risk"
        /\ analysis.ai_insights[i].severity = "high"

\* C27: the budget_risk insight is emitted exactly when the data holds at
\* least two months, the days elapsed in the current calendar month are
\* strictly between 0 and the length of the month, and the expenses of all
\* the transactions dated in the current calendar month, divided by the days
\* elapsed and multiplied by the length of the month, exceed 120 percent of
\* the mean of the monthly expenses.
C27_BudgetRisk ==
    (pc = "lib_analyzed" /\ LabelledOnce # <<>>) =>
        (BudgetRiskReported <=>
            /\ Cardinality(MonthsGiven) >= 2
            /\ DaysElapsed > 0
            /\ DaysElapsed < DaysOfMonth
            /\ CurrentMonthOutgo * DaysOfMonth * Cardinality(MonthsGiven) * 10
                  > 12 * Outgo * DaysElapsed)

\* the place of the rule family of an insight type in _generate_ai_insights
FamilyRank(type) ==
    IF type \in {"spending_spike", "spending_decrease", "category_dominance"} THEN 1
    ELSE IF type = "budget_risk" THEN 2
    ELSE IF type = "savings_opportunity" THEN 3
    ELSE IF type = "spending_pattern" THEN 4
    ELSE IF type = "financial_health" THEN 5
    ELSE 0

InsightFields == {"type", "severity", "title", "message", "amount", "recommendation"}

\* C28: in ai_insights the insights of the anomalies family come before the
\* budget_risk insights, these before the savings_opportunity insights, these
\* before the spending_pattern insight, and that before the financial_health
\* insight; every insight has exactly the fields type, severity, title,
\* message, amount and recommendation.
C28_FamiliesInOrder ==
    (pc = "lib_analyzed" /\ LabelledOnce # <<>>) =>
        /\ \A i \in 1..Len(analysis.ai_insights) :
              /\ DOMAIN analysis.ai_insights[i] = InsightFields
              /\ FamilyRank(analysis.ai_insights[i].type) > 0
        /\ \A i, j \in 1..Len(analysis.ai_insights) :
              i < j => FamilyRank(analysis.ai_insights[i].type)
                           <= FamilyRank(analysis.ai_insights[j].type)
        /\ Cardinality({i \in 1..Len(analysis.ai_insights) :
                           analysis.ai_insights[i].type = "spending_pattern"}) <= 1
        /\ Cardinality({i \in 1..Len(analysis.ai_insights) :
                           analysis.ai_insights[i].type = "financial_health"}) <= 1

\* an analysis whose ai_insights holds insights of all five families
C28_Witness ==
    /\ pc = "lib_analyzed"
    /\ LabelledOnce # <<>>
    /\ {FamilyRank(analysis.ai_insights[i].type) : i \in 1..Len(analysis.ai_insights)}
          = 1..5

\* the value of the cell of the row a record came from under the column
\* resolved as the amount
AmountCellValue(rec) ==
    ParseAmount(RowCell(rec.original_data.cols, rec.original_data.cells,
                        BuildMapping(rec.original_data.cols)["amount"]).v)

\* the record's amount and type are those of the amount cell alone
FromAmountColumn(rec) ==
    /\ AmountCellValue(rec).ok
    /\ rec.amount = Abs(AmountCellValue(rec).v)
    /\ rec.type = IF AmountCellValue(rec).v > 0 THEN "Credit" ELSE "Debit"

\* C29: whenever a column is resolved as the amount, the amount and the type
\* of a record come from that column alone, whatever the resolved debit and
\* credit columns hold; a header resolves to every field one of whose synonyms
\* it contains, the first such header in header order winning.
C29_AmountColumnWins ==
    ParseReturned =>
        \A i \in 1..Len(transactions) :
            /\ "amount" \in DOMAIN BuildMapping(transactions[i].original_data.cols)
                  => FromAmountColumn(transactions[i])
            /\ \A f \in DOMAIN BuildMapping(transactions[i].original_data.cols) :
                  \E k \in 1..Len(transactions[i].original_data.cols) :
                     /\ BuildMapping(transactions[i].original_data.cols)[f]
                           = transactions[i].original_data.cols[k]
                     /\ MatchesField(transactions[i].original_data.cols[k], FieldPatterns(f))
                     /\ \A j \in 1..(k - 1) :
                           ~MatchesField(transactions[i].original_data.cols[j],
                                         FieldPatterns(f))

\* parse_file returned a record of a table whose 'credit amount' header is
\* resolved as the amount and as the credit, typed by that column although the
\* debit cell of its row holds a value
C29_Witness ==
    /\ ParseReturned
    /\ \E i \in 1..Len(transactions) :
          /\ DOMAIN BuildMapping(transactions[i].original_data.cols)
                = {"date", "description", "amount", "debit", "credit"}
          /\ BuildMapping(transactions[i].original_data.cols)["amount"] = "credit amount"
          /\ BuildMapping(transactions[i].original_data.cols)["credit"] = "credit amount"
          /\ Nonzero(SourceValue(transactions[i], "debit"))
          /\ transactions[i].type = "Credit"

\* convert_to_standard_format has gone through the extracted records
Converted == pc \in {"pdf_parsed", "pdf_failed"}

\* float() of the value an extracted record holds under the key, 0 without it
Coerced(trans, key) == ToFloat(Get(trans, key, Num(0)))

\* the extracted record holds a balance that is no number
BadBalance(trans) ==
    trans.obj /\ "balance" \in DOMAIN trans.f /\ ~Coerced(trans, "balance").ok

\* the extracted record has numeric debit and credit values, one of them
\* positive
ValidMoney(trans) ==
    /\ trans.obj
    /\ Coerced(trans, "debit").ok
    /\ Coerced(trans, "credit").ok
    /\ Coerced(trans, "debit").v > 0 \/ Coerced(trans, "credit").v > 0

\* C30: a record is emitted only if its balance coerces to a number: a record
\* with a valid debit or credit and a null or non-numeric balance is skipped,
\* a record without a balance key is emitted with balance 0, and every emitted
\* record is a Debit with amount = -debit < 0 or a Credit with amount =
\* credit > 0.
C30_BalanceMustCoerce ==
    Converted =>
        /\ [i \in 1..Len(transactions) |-> transactions[i].original_data]
              = SelectSeq(raw_records, LAMBDA t : ValidMoney(t) /\ ~BadBalance(t))
        /\ \A i \in 1..Len(transactions) :
              /\ Coerced(transactions[i].original_data, "balance").ok
              /\ transactions[i].balance
                    = Coerced(transactions[i].original_data, "balance").v
              /\ "balance" \notin DOMAIN transactions[i].original_data.f
                    => transactions[i].balance = 0
              /\ \/ /\ transactions[i].type = "Debit"
                    /\ transactions[i].amount < 0
                    /\ transactions[i].amount
                          = 0 - Coerced(transactions[i].original_data, "debit").v
                 \/ /\ transactions[i].type = "Credit"
                    /\ transactions[i].amount > 0
                    /\ transactions[i].amount
                          = Coerced(transactions[i].original_data, "credit").v

\* of two extracted records with a valid amount, the one whose balance is no
\* number was skipped and the one without a balance key was emitted
C30_Witness ==
    /\ pc = "pdf_parsed"
    /\ Len(raw_records) = 2
    /\ \E k \in 1..2 : ValidMoney(raw_records[k]) /\ BadBalance(raw_records[k])
    /\ Len(transactions) = 1
    /\ "balance" \notin DOMAIN transactions[1].original_data.f
    /\ transactions[1].balance = 0

=============================================================================
